---- MODULE Spec2Model ----
(***************************************************************************)
(* Page-replacement simulation engine of VirtualMemory-Optimizer:          *)
(* virtual_memory_sim/src/algorithms/page_replacement.py.                  *)
(*                                                                         *)
(* One instance of LRUAlgorithm or OptimalAlgorithm is constructed and     *)
(* simulate() is called on it repeatedly.  A call is modelled as: the      *)
(* prologue (reset, history = []), one step per iteration of the for loop, *)
(* and the return statement.  Between calls the caller may call the public *)
(* reset() itself.  Python lists are sequences; Python index k is position *)
(* k+1 here.  The OrderedDict access_history is the sequence of its keys,  *)
(* oldest first (its values are always True).                              *)
(***************************************************************************)
EXTENDS Integers, Sequences, FiniteSets, TLC

VARIABLES alg,             \* class of the instance: "LRU" or "OPT"
          total_frames,    \* self.total_frames
          page_faults,     \* self.page_faults
          memory_state,    \* self.memory_state
          access_history,  \* self.access_history (LRU only), keys oldest first
          page_sequence,   \* argument of the current / last simulate call
          history,         \* local list `history` of the current call
          i,               \* number of references already processed
          pc,              \* "idle" | "loop" | "returned" | "raised"
          ret,             \* tuple returned by the last completed call
          stale,           \* the current call found the instance holding the
                           \* faults, frames or recency of an earlier call
          caller,          \* what the caller passes: "valid" (frames >= 1,
                           \* pages >= 0), "unchecked" (any integers) or
                           \* "holding" (valid, and it keeps old results)
          held,            \* history returned by the previous call, still
                           \* referenced by a "holding" caller
          held_final,      \* final memory state list returned by the
                           \* previous call, still referenced by it
          ui,              \* one script run of a Streamlit front end
                           \* (main.py, web_app.py) and its session state
          tk               \* the Tk front end (vm_simulator.py): flags,
                           \* pending timers, position of run_simulation

vars == <<alg, total_frames, page_faults, memory_state, access_history,
          page_sequence, history, i, pc, ret, stale, caller, held,
          held_final, ui, tk>>

\* the variables of the instance under direct call
engine_vars == <<alg, total_frames, page_faults, memory_state, access_history,
                 page_sequence, history, i, pc, ret, stale, caller, held,
                 held_final>>

----------------------------------------------------------------------------
(* Bounds of the model *)

MaxFrames == 3
MaxPage == 3
MaxLen == 4
\* a further call is explored on instances whose last run was this short
MaxStaleLen == 2
\* longest text typed into a page-sequence field
MaxText == 3
\* largest page id passed by a caller that keeps the results of earlier
\* calls
MaxHeldPage == 2
\* processes the operating system may list
MaxPids == 1
\* run_simulation calls suspended in root.update() below the running one
MaxNested == 1
\* pending Tk timers of one kind
MaxTimers == 2

(* The empty-slot sentinel, page_replacement.py:8 and :12 *)
EMPTY == -1

(* Reference string of tests/test_page_replacement.py:13 *)
TestSequence == <<1, 2, 3, 4, 1, 2, 5, 1, 2, 3, 4, 5>>

Pages == 0..MaxPage

BoundedSequences == UNION {[1..n -> Pages] : n \in 0..MaxLen}

InputSequences == BoundedSequences \cup {TestSequence}

\* arguments that break the precondition of simulate: -1 is the sentinel
SignedPages == {EMPTY - 1, EMPTY} \cup Pages

SignedSequences == UNION {[1..n -> SignedPages] : n \in 0..MaxLen}

\* frame counts an unchecked constructor call may pass
SignedFrames == (0 - 1)..MaxFrames

ShortSequences == UNION {[1..n -> Pages] : n \in 0..MaxStaleLen}

HeldSequences == UNION {[1..n -> 0..MaxHeldPage] : n \in 0..MaxStaleLen}

----------------------------------------------------------------------------
(* Python list primitives used by the code *)

\* x in s
Contains(s, x) == \E k \in 1..Len(s) : s[k] = x

\* s.index(x): position of the first occurrence (only used when x in s)
IndexOf(s, x) == CHOOSE k \in 1..Len(s) : s[k] = x /\ \A j \in 1..(k-1) : s[j] # x

\* [v] * n  (n <= 0 gives the empty list)
Repeat(v, n) == [k \in 1..n |-> v]

\* s.count(x)
Count(s, x) == Cardinality({k \in 1..Len(s) : s[k] = x})

\* the entry is left in the dict
RemoveKey_keep(d, x) == d

\* del d[x] on the key sequence of an OrderedDict
RemoveKey(d, x) == SelectSeq(d, LAMBDA y : y # x)

----------------------------------------------------------------------------
(* PageReplacementAlgorithm *)

\* __init__ (lines 5-8): the fields of a new instance with n frames
new_instance(n) ==
    [total_frames |-> n, page_faults |-> 0, memory_state |-> Repeat(EMPTY, n)]

\* reset that forgets to zero the fault counter
reset_keep_faults(self) ==
    [self EXCEPT !.memory_state = Repeat(EMPTY, self.total_frames)]

\* reset that zeroes the fault counter but keeps the old frame list
reset_keep_frames(self) == [self EXCEPT !.page_faults = 0]

\* reset that fills the frame list with 0 instead of the sentinel -1
reset_zero_sentinel(self) ==
    [self EXCEPT !.page_faults = 0,
                 !.memory_state = Repeat(0, self.total_frames)]

\* reset (lines 10-12): fault counter 0 and a new list of total_frames
\* empty slots
reset(self) ==
    [self EXCEPT !.page_faults = 0,
                 !.memory_state = Repeat(EMPTY, self.total_frames)]

\* self.memory_state.insert(index, page) instead of an overwrite
Assign_insert(s, k, x) ==
    SubSeq(s, 1, k - 1) \o <<x>> \o SubSeq(s, k, Len(s))

\* the store goes to a copy of the list and is lost
Assign_on_copy(s, k, x) == s

\* self.memory_state[index] = page (lines 44, 96)
Assign(s, k, x) == [s EXCEPT ![k] = x]

\* current_state created with 'page_fault': True
current_state_fault_true(page, frames) ==
    [page_accessed |-> page, memory_state |-> frames, page_fault |-> TRUE]

\* the dict built at the top of each loop iteration (lines 25-29, 75-79);
\* memory_state.copy() is the value of the frame table at that moment
current_state(page, frames) ==
    [page_accessed |-> page, memory_state |-> frames, page_fault |-> FALSE]

\* fault test that scans the frame list from slot 1 instead of slot 0
page_not_resident_from_slot1(frames, page) == ~Contains(Tail(frames), page)

\* the fault test `page not in self.memory_state` (lines 31, 81)
page_not_resident(frames, page) == ~Contains(frames, page)

\* the append placed inside the fault branch
history_append_faults_only(h, cs) ==
    IF cs.page_fault THEN Append(h, cs) ELSE h

\* history.append(current_state) (lines 51, 98)
history_append(h, cs) == Append(h, cs)

\* current_state built without .copy(): every record references the live
\* list, so a store into it shows in all of them
records_after_store_aliased(h, frames) ==
    [k \in 1..Len(h) |-> [h[k] EXCEPT !.memory_state = frames]]

\* the records once self.memory_state[index] = page has run (lines 44, 96):
\* each holds its own list, made by self.memory_state.copy() (lines 27, 77),
\* so the store into the live list reaches none of them
records_after_store(h, frames) == h

\* del page_sequence[:i + 1] where the code takes a slice
future_slice_in_place(seq, k) ==
    [future_sequence |-> SubSeq(seq, k + 1, Len(seq)),
     page_sequence |-> SubSeq(seq, k + 1, Len(seq))]

\* page_sequence[i+1:] (line 92): the references after position i as a new
\* list; the caller's list is left as it was
future_slice(seq, k) ==
    [future_sequence |-> SubSeq(seq, k + 1, Len(seq)),
     page_sequence |-> seq]

----------------------------------------------------------------------------
(* LRUAlgorithm *)

\* simulate that does not clear the recency tracker
access_history_keep(d) == d

\* self.access_history.clear() (line 21)
access_history_clear(d) == <<>>

\* recency that is not refreshed when the page is already tracked (FIFO)
refresh_keep_position(d, page) ==
    IF Contains(d, page) THEN d ELSE Append(d, page)

\* a faulting page is never entered into access_history
refresh_faults_untracked(d, page) ==
    IF Contains(d, page) THEN Append(RemoveKey(d, page), page) ELSE d

\* lines 47-49: move `page` to the most-recent end of access_history
refresh(d, page) ==
    IF Contains(d, page) THEN Append(RemoveKey(d, page), page)
                         ELSE Append(d, page)

\* a faulting page always goes to slot 0 while an empty slot exists
lru_index_first_slot(frames, d) ==
    IF Contains(frames, EMPTY) THEN 1
                               ELSE IndexOf(frames, Head(d))

\* a faulting page goes to the last empty slot instead of the first
lru_index_last_empty(frames, d) ==
    IF Contains(frames, EMPTY)
    THEN CHOOSE k \in 1..Len(frames) :
            frames[k] = EMPTY /\ \A j \in (k + 1)..Len(frames) : frames[j] # EMPTY
    ELSE IndexOf(frames, Head(d))

\* the victim is the newest key of access_history instead of the oldest
lru_index_most_recent(frames, d) ==
    IF Contains(frames, EMPTY) THEN IndexOf(frames, EMPTY)
                               ELSE IndexOf(frames, d[Len(d)])

\* lines 35-41: the slot a faulting page goes to: the first empty slot, else
\* the slot of the oldest key of access_history
lru_index(frames, d) ==
    IF Contains(frames, EMPTY) THEN IndexOf(frames, EMPTY)
                               ELSE IndexOf(frames, Head(d))

\* One iteration of the for loop of LRUAlgorithm.simulate (lines 24-51) on
\* the instance state st = [page_faults, memory_state, access_history].
\* raised: next(iter(access_history)) on an empty dict (StopIteration) or
\* memory_state.index(lru_page) on a page that is not resident (ValueError);
\* both leave page_faults incremented and nothing else changed.
lru_iteration(st, page) ==
    LET frames   == st.memory_state
        d        == st.access_history
        cs       == current_state(page, frames)
        fault    == page_not_resident(frames, page)
        hasEmpty == Contains(frames, EMPTY)
        evict    == fault /\ ~hasEmpty
        raises   == evict /\ (d = <<>> \/ ~Contains(frames, Head(d)))
        index    == lru_index(frames, d)
        d1       == IF evict THEN RemoveKey(d, Head(d)) ELSE d
    IN  IF raises
        THEN [raised |-> TRUE,
              page_faults |-> st.page_faults + 1,
              memory_state |-> frames,
              access_history |-> d,
              current_state |-> [cs EXCEPT !.page_fault = TRUE]]
        ELSE [raised |-> FALSE,
              page_faults |-> IF fault THEN st.page_faults + 1
                                       ELSE st.page_faults,
              memory_state |-> IF fault THEN Assign(frames, index, page)
                                        ELSE frames,
              access_history |-> refresh(d1, page),
              current_state |-> IF fault THEN [cs EXCEPT !.page_fault = TRUE]
                                         ELSE cs]

----------------------------------------------------------------------------
(* OptimalAlgorithm *)

\* except ValueError that records -1 instead of keeping float('inf')
next_use_missing_first(page, future_sequence) ==
    IF Contains(future_sequence, page)
    THEN IndexOf(future_sequence, page) - 1
    ELSE 0 - 1

\* future_use[page] of find_optimal_victim (lines 60-66): the index of the
\* first occurrence of page in future_sequence, or float('inf'), which is
\* represented by Len(future_sequence), a value above every index
next_use(page, future_sequence) ==
    IF Contains(future_sequence, page)
    THEN IndexOf(future_sequence, page) - 1
    ELSE Len(future_sequence)

\* the keys of future_use in insertion order: positions of current_pages
\* holding the first occurrence of a page other than -1 (line 60)
victim_candidates(current_pages) ==
    {k \in 1..Len(current_pages) :
        /\ current_pages[k] # EMPTY
        /\ \A j \in 1..(k-1) : current_pages[j] # current_pages[k]}

\* min() instead of max(): the page used soonest is the victim
find_optimal_victim_nearest(current_pages, future_sequence) ==
    LET cand == victim_candidates(current_pages)
        use(k) == next_use(current_pages[k], future_sequence)
        best == CHOOSE k \in cand :
                    /\ \A j \in cand : use(k) <= use(j)
                    /\ \A j \in cand : j < k => use(k) < use(j)
    IN  current_pages[best]

\* a maximum that keeps the last of several tied keys (>= in the comparison)
find_optimal_victim_last_tied(current_pages, future_sequence) ==
    LET cand == victim_candidates(current_pages)
        use(k) == next_use(current_pages[k], future_sequence)
        best == CHOOSE k \in cand :
                    /\ \A j \in cand : use(j) <= use(k)
                    /\ \A j \in cand : j > k => use(j) < use(k)
    IN  current_pages[best]

\* find_optimal_victim (lines 59-68): max() returns the first key, in
\* insertion order, whose future_use is maximal
find_optimal_victim(current_pages, future_sequence) ==
    LET cand == victim_candidates(current_pages)
        use(k) == next_use(current_pages[k], future_sequence)
        best == CHOOSE k \in cand :
                    /\ \A j \in cand : use(j) <= use(k)
                    /\ \A j \in cand : j < k => use(j) < use(k)
    IN  current_pages[best]

\* One iteration of the for loop of OptimalAlgorithm.simulate (lines 74-98)
\* for the reference at position k of seq, on st = [page_faults,
\* memory_state].  raised: max() of an empty future_use (ValueError).
opt_iteration(st, seq, k) ==
    LET page     == seq[k]
        frames   == st.memory_state
        cs       == current_state(page, frames)
        fault    == page_not_resident(frames, page)
        hasEmpty == Contains(frames, EMPTY)
        evict    == fault /\ ~hasEmpty
        raises   == evict /\ victim_candidates(frames) = {}
        index    == IF hasEmpty
                    THEN IndexOf(frames, EMPTY)
                    ELSE IndexOf(frames,
                           find_optimal_victim(frames,
                              future_slice(seq, k).future_sequence))
        left     == IF evict THEN future_slice(seq, k).page_sequence ELSE seq
    IN  IF raises
        THEN [raised |-> TRUE,
              page_sequence |-> left,
              page_faults |-> st.page_faults + 1,
              memory_state |-> frames,
              current_state |-> [cs EXCEPT !.page_fault = TRUE]]
        ELSE [raised |-> FALSE,
              page_sequence |-> left,
              page_faults |-> IF fault THEN st.page_faults + 1
                                       ELSE st.page_faults,
              memory_state |-> IF fault THEN Assign(frames, index, page)
                                        ELSE frames,
              current_state |-> IF fault THEN [cs EXCEPT !.page_fault = TRUE]
                                         ELSE cs]

----------------------------------------------------------------------------
(* A whole simulate call on an instance with n frames, as a function of its *)
(* arguments: the result tuple, or raised = TRUE                            *)

RECURSIVE lru_loop(_, _, _, _)
lru_loop(st, h, seq, k) ==
    IF k > Len(seq)
    THEN [raised |-> FALSE, page_faults |-> st.page_faults,
          memory_state |-> st.memory_state, history |-> h]
    ELSE LET r == lru_iteration(st, seq[k])
         IN  IF r.raised
             THEN [raised |-> TRUE, page_faults |-> r.page_faults,
                   memory_state |-> r.memory_state, history |-> h]
             ELSE lru_loop(r,
                           records_after_store(
                              history_append(h, r.current_state),
                              r.memory_state),
                           seq, k + 1)

\* LRUAlgorithm.simulate (lines 19-53)
LRU_simulate(n, seq) ==
    lru_loop([page_faults |-> reset(new_instance(n)).page_faults,
              memory_state |-> reset(new_instance(n)).memory_state,
              access_history |-> access_history_clear(<<>>)], <<>>, seq, 1)

RECURSIVE opt_loop(_, _, _, _)
opt_loop(st, h, seq, k) ==
    IF k > Len(seq)
    THEN [raised |-> FALSE, page_faults |-> st.page_faults,
          memory_state |-> st.memory_state, history |-> h]
    ELSE LET r == opt_iteration(st, seq, k)
         IN  IF r.raised
             THEN [raised |-> TRUE, page_faults |-> r.page_faults,
                   memory_state |-> r.memory_state, history |-> h]
             ELSE opt_loop(r,
                           records_after_store(
                              history_append(h, r.current_state),
                              r.memory_state),
                           r.page_sequence, k + 1)

\* OptimalAlgorithm.simulate (lines 70-100)
OPT_simulate(n, seq) == opt_loop(reset(new_instance(n)), <<>>, seq, 1)

----------------------------------------------------------------------------
(* The copies of the engine in original_vm.py and web_app.py, as functions  *)
(* of their arguments.  They are written out from their own source lines.   *)

\* max(future_use.items(), key=lambda x: x[1])[0] (original_vm.py:69,
\* web_app.py:272): the first key, in insertion order, with the largest
\* value; keys holds the pages in the order they were inserted, val
\* their values
dict_max_key(keys, val) ==
    LET cand == {k \in 1..Len(keys) :
                    \A j \in 1..(k - 1) : keys[j] # keys[k]}
        best == CHOOSE k \in cand :
                    /\ \A j \in cand : val[keys[j]] <= val[keys[k]]
                    /\ \A j \in cand : j < k => val[keys[j]] < val[keys[k]]
    IN  keys[best]

\* lst.index(p) inside try/except ValueError with float('inf') as the
\* fallback (original_vm.py:65-68, web_app.py:267-270); inf is represented
\* by Len(lst) + 1, a value above every index and every index + 1
index_or_inf(lst, p, offset) ==
    IF Contains(lst, p) THEN IndexOf(lst, p) - 1 + offset ELSE Len(lst) + 1

\* original_vm.py:41-45: the record appended by lru_replace and
\* optimal_replace; before is the copy current_state taken at the top of
\* the loop
orig_record(page, before) ==
    [page |-> page, state |-> before, fault |-> ~Contains(before, page)]

\* one iteration of PageReplacementAlgorithm.lru_replace (original_vm.py
\* lines 22-45) on st = [page_faults, memory, access_history]
orig_lru_iteration(st, page) ==
    LET memory   == st.memory
        d        == st.access_history
        fault    == ~Contains(memory, page)
        evict    == fault /\ ~Contains(memory, EMPTY)
        raises   == evict /\ (d = <<>> \/ ~Contains(memory, Head(d)))
        idx      == IF Contains(memory, EMPTY) THEN IndexOf(memory, EMPTY)
                                               ELSE IndexOf(memory, Head(d))
        d1       == IF evict THEN RemoveKey(d, Head(d)) ELSE d
        d2       == IF Contains(d1, page) THEN Append(RemoveKey(d1, page), page)
                                          ELSE Append(d1, page)
    IN  IF raises
        THEN [raised |-> TRUE, page_faults |-> st.page_faults + 1,
              memory |-> memory, access_history |-> d,
              record |-> orig_record(page, memory)]
        ELSE [raised |-> FALSE,
              page_faults |-> IF fault THEN st.page_faults + 1
                                       ELSE st.page_faults,
              memory |-> IF fault THEN [memory EXCEPT ![idx] = page]
                                  ELSE memory,
              access_history |-> d2,
              record |-> orig_record(page, memory)]

RECURSIVE orig_lru_loop(_, _, _, _)
orig_lru_loop(st, h, seq, k) ==
    IF k > Len(seq)
    THEN [raised |-> FALSE, page_faults |-> st.page_faults,
          memory |-> st.memory, history |-> h]
    ELSE LET r == orig_lru_iteration(st, seq[k])
         IN  IF r.raised
             THEN [raised |-> TRUE, page_faults |-> r.page_faults,
                   memory |-> r.memory, history |-> h]
             ELSE orig_lru_loop(r, Append(h, r.record), seq, k + 1)

\* PageReplacementAlgorithm(n).lru_replace(seq), original_vm.py lines 16-47
orig_lru_replace(n, seq) ==
    orig_lru_loop([page_faults |-> 0, memory |-> Repeat(EMPTY, n),
                   access_history |-> <<>>], <<>>, seq, 1)

\* one iteration of PageReplacementAlgorithm.optimal_replace (original_vm.py
\* lines 54-77) for position k of seq; the future is scanned from the
\* current reference on (page_sequence[i:])
orig_optimal_iteration(st, seq, k) ==
    LET page     == seq[k]
        memory   == st.memory
        fault    == ~Contains(memory, page)
        evict    == fault /\ ~Contains(memory, EMPTY)
        raises   == evict /\ memory = <<>>
        future   == SubSeq(seq, k, Len(seq))
        use      == [p \in {memory[j] : j \in 1..Len(memory)} |->
                        index_or_inf(future, p, 0)]
        idx      == IF Contains(memory, EMPTY)
                    THEN IndexOf(memory, EMPTY)
                    ELSE IndexOf(memory, dict_max_key(memory, use))
    IN  IF raises
        THEN [raised |-> TRUE, page_faults |-> st.page_faults + 1,
              memory |-> memory, record |-> orig_record(page, memory)]
        ELSE [raised |-> FALSE,
              page_faults |-> IF fault THEN st.page_faults + 1
                                       ELSE st.page_faults,
              memory |-> IF fault THEN [memory EXCEPT ![idx] = page]
                                  ELSE memory,
              record |-> orig_record(page, memory)]

RECURSIVE orig_optimal_loop(_, _, _, _)
orig_optimal_loop(st, h, seq, k) ==
    IF k > Len(seq)
    THEN [raised |-> FALSE, page_faults |-> st.page_faults,
          memory |-> st.memory, history |-> h]
    ELSE LET r == orig_optimal_iteration(st, seq, k)
         IN  IF r.raised
             THEN [raised |-> TRUE, page_faults |-> r.page_faults,
                   memory |-> r.memory, history |-> h]
             ELSE orig_optimal_loop(r, Append(h, r.record), seq, k + 1)

\* PageReplacementAlgorithm(n).optimal_replace(seq), original_vm.py 49-79
orig_optimal_replace(n, seq) ==
    orig_optimal_loop([page_faults |-> 0, memory |-> Repeat(EMPTY, n)],
                      <<>>, seq, 1)

\* a record that stores the copy taken at the top of the loop
web_record_before(step, page, before, memory, is_fault) ==
    [step |-> step, page |-> page, state |-> before, fault |-> is_fault]

\* web_app.py:238-243 and 277-282: the record appended by lru_replacement
\* and optimal_replacement; 'state' is memory.copy() taken after the
\* assignment; before, the copy current_state of line 217 / 254, is not used
web_record(step, page, before, memory, is_fault) ==
    [step |-> step, page |-> page, state |-> memory, fault |-> is_fault]

\* one iteration of lru_replacement (web_app.py lines 216-243) at 0-based
\* step on st = [page_faults, memory, access_history]
web_lru_iteration(st, step, page) ==
    LET memory   == st.memory
        d        == st.access_history
        is_fault == ~Contains(memory, page)
        evict    == is_fault /\ ~Contains(memory, EMPTY)
        raises   == evict /\ (d = <<>> \/ ~Contains(memory, Head(d)))
        idx      == IF Contains(memory, EMPTY) THEN IndexOf(memory, EMPTY)
                                               ELSE IndexOf(memory, Head(d))
        after    == IF is_fault THEN [memory EXCEPT ![idx] = page]
                                ELSE memory
        d1       == IF evict THEN RemoveKey(d, Head(d)) ELSE d
        d2       == IF Contains(d1, page) THEN Append(RemoveKey(d1, page), page)
                                          ELSE Append(d1, page)
    IN  IF raises
        THEN [raised |-> TRUE, page_faults |-> st.page_faults + 1,
              memory |-> memory, access_history |-> d,
              record |-> web_record(step, page, memory, memory, TRUE)]
        ELSE [raised |-> FALSE,
              page_faults |-> IF is_fault THEN st.page_faults + 1
                                          ELSE st.page_faults,
              memory |-> after,
              access_history |-> d2,
              record |-> web_record(step, page, memory, after, is_fault)]

RECURSIVE web_lru_loop(_, _, _, _)
web_lru_loop(st, h, seq, k) ==
    IF k > Len(seq)
    THEN [raised |-> FALSE, history |-> h, page_faults |-> st.page_faults]
    ELSE LET r == web_lru_iteration(st, k - 1, seq[k])
         IN  IF r.raised
             THEN [raised |-> TRUE, history |-> h,
                   page_faults |-> r.page_faults]
             ELSE web_lru_loop(r, Append(h, r.record), seq, k + 1)

\* lru_replacement(page_sequence, frame_count), web_app.py lines 210-245
web_lru_replacement(seq, frame_count) ==
    web_lru_loop([page_faults |-> 0, memory |-> Repeat(EMPTY, frame_count),
                  access_history |-> <<>>], <<>>, seq, 1)

\* one iteration of optimal_replacement (web_app.py lines 253-282) for
\* position k of seq (step = k - 1); future_use is index + 1 in
\* page_sequence[step+1:]
web_optimal_iteration(st, seq, k) ==
    LET page     == seq[k]
        memory   == st.memory
        is_fault == ~Contains(memory, page)
        evict    == is_fault /\ ~Contains(memory, EMPTY)
        raises   == evict /\ memory = <<>>
        future   == SubSeq(seq, k + 1, Len(seq))
        use      == [p \in {memory[j] : j \in 1..Len(memory)} |->
                        index_or_inf(future, p, 1)]
        idx      == IF Contains(memory, EMPTY)
                    THEN IndexOf(memory, EMPTY)
                    ELSE IndexOf(memory, dict_max_key(memory, use))
        after    == IF is_fault THEN [memory EXCEPT ![idx] = page]
                                ELSE memory
    IN  IF raises
        THEN [raised |-> TRUE, page_faults |-> st.page_faults + 1,
              memory |-> memory,
              record |-> web_record(k - 1, page, memory, memory, TRUE)]
        ELSE [raised |-> FALSE,
              page_faults |-> IF is_fault THEN st.page_faults + 1
                                          ELSE st.page_faults,
              memory |-> after,
              record |-> web_record(k - 1, page, memory, after, is_fault)]

RECURSIVE web_optimal_loop(_, _, _, _)
web_optimal_loop(st, h, seq, k) ==
    IF k > Len(seq)
    THEN [raised |-> FALSE, history |-> h, page_faults |-> st.page_faults]
    ELSE LET r == web_optimal_iteration(st, seq, k)
         IN  IF r.raised
             THEN [raised |-> TRUE, history |-> h,
                   page_faults |-> r.page_faults]
             ELSE web_optimal_loop(r, Append(h, r.record), seq, k + 1)

\* optimal_replacement(page_sequence, frame_count), web_app.py 248-284
web_optimal_replacement(seq, frame_count) ==
    web_optimal_loop([page_faults |-> 0,
                      memory |-> Repeat(EMPTY, frame_count)], <<>>, seq, 1)


----------------------------------------------------------------------------
(* MemoryManager of app.py: the resident pages are kept in a list without   *)
(* empty slots, in the order they were loaded                               *)

\* memory.remove(x): the list without the first occurrence of x
Remove(s, x) ==
    LET k == IndexOf(s, x)
    IN  SubSeq(s, 1, k - 1) \o SubSeq(s, k + 1, Len(s))

\* one iteration of MemoryManager.lru_replace (app.py lines 38-51) on
\* st = [page_faults, memory, access_history] with n = self.total_frames;
\* raised: next(iter(access_history)) on an empty dict or memory.remove of a
\* page that is not in the list
app_lru_iteration(n, st, page) ==
    LET memory   == st.memory
        d        == st.access_history
        fault    == ~Contains(memory, page)
        evict    == fault /\ Len(memory) >= n
        raises   == evict /\ (d = <<>> \/ ~Contains(memory, Head(d)))
        m1       == IF evict THEN Remove(memory, Head(d)) ELSE memory
        d1       == IF evict THEN RemoveKey(d, Head(d)) ELSE d
        d2       == IF Contains(d1, page) THEN Append(RemoveKey(d1, page), page)
                                          ELSE Append(d1, page)
    IN  IF raises
        THEN [raised |-> TRUE, page_faults |-> st.page_faults + 1,
              memory |-> memory, access_history |-> d]
        ELSE [raised |-> FALSE,
              page_faults |-> IF fault THEN st.page_faults + 1
                                       ELSE st.page_faults,
              memory |-> IF fault THEN Append(m1, page) ELSE memory,
              access_history |-> d2]

RECURSIVE app_lru_loop(_, _, _, _)
app_lru_loop(n, st, seq, k) ==
    IF k > Len(seq)
    THEN [raised |-> FALSE, page_faults |-> st.page_faults,
          memory |-> st.memory]
    ELSE LET r == app_lru_iteration(n, st, seq[k])
         IN  IF r.raised
             THEN [raised |-> TRUE, page_faults |-> r.page_faults,
                   memory |-> r.memory]
             ELSE app_lru_loop(n, r, seq, k + 1)

\* MemoryManager(n).lru_replace(seq), app.py lines 33-53
app_lru_replace(n, seq) ==
    app_lru_loop(n, [page_faults |-> 0, memory |-> <<>>,
                     access_history |-> <<>>], seq, 1)

\* page_sequence.index(p) on the whole list where the code slices first
app_future_usage_from_start(memory, seq, k) ==
    [p \in {memory[j] : j \in 1..Len(memory)} |-> index_or_inf(seq, p, 0)]

\* future_usage of MemoryManager.optimal_replace (app.py lines 65-70): for
\* each page of memory the index of its first occurrence in
\* page_sequence[i:], or float('inf'); k = i + 1 is the position of the
\* current reference
app_future_usage(memory, seq, k) ==
    [p \in {memory[j] : j \in 1..Len(memory)} |->
        index_or_inf(SubSeq(seq, k, Len(seq)), p, 0)]

\* one iteration of MemoryManager.optimal_replace (app.py lines 60-73) for
\* position k of seq on st = [page_faults, memory]; raised: max() of an
\* empty future_usage
app_optimal_iteration(n, st, seq, k) ==
    LET page     == seq[k]
        memory   == st.memory
        fault    == ~Contains(memory, page)
        evict    == fault /\ Len(memory) >= n
        raises   == evict /\ memory = <<>>
        victim   == dict_max_key(memory, app_future_usage(memory, seq, k))
        m1       == IF evict THEN Remove(memory, victim) ELSE memory
    IN  IF raises
        THEN [raised |-> TRUE, page_faults |-> st.page_faults + 1,
              memory |-> memory]
        ELSE [raised |-> FALSE,
              page_faults |-> IF fault THEN st.page_faults + 1
                                       ELSE st.page_faults,
              memory |-> IF fault THEN Append(m1, page) ELSE memory]

RECURSIVE app_optimal_loop(_, _, _, _)
app_optimal_loop(n, st, seq, k) ==
    IF k > Len(seq)
    THEN [raised |-> FALSE, page_faults |-> st.page_faults,
          memory |-> st.memory]
    ELSE LET r == app_optimal_iteration(n, st, seq, k)
         IN  IF r.raised
             THEN r
             ELSE app_optimal_loop(n, r, seq, k + 1)

\* MemoryManager(n).optimal_replace(seq), app.py lines 56-75
app_optimal_replace(n, seq) ==
    app_optimal_loop(n, [page_faults |-> 0, memory |-> <<>>], seq, 1)
----------------------------------------------------------------------------
(* The state machine *)

NoRet == [page_faults |-> 0, memory_state |-> <<>>, history |-> <<>>]

\* no front end is attached
NoUi == [phase |-> "none"]

NoTk == [run |-> "none"]

\* the instance after LRUAlgorithm(n) or OptimalAlgorithm(n), n in frames
InitWith(c, frames) ==
    /\ caller = c
    /\ held = <<>>
    /\ held_final = <<>>
    /\ alg \in {"LRU", "OPT"}
    /\ total_frames \in frames
    /\ page_faults = new_instance(total_frames).page_faults
    /\ memory_state = new_instance(total_frames).memory_state
    /\ access_history = <<>>
    /\ page_sequence = <<>>
    /\ history = <<>>
    /\ i = 0
    /\ pc = "idle"
    /\ ret = NoRet
    /\ stale = FALSE
    /\ ui = NoUi
    /\ tk = NoTk

\* construction with a frame count >= 1
Init == InitWith("valid", 1..MaxFrames)

\* construction with any frame count (__init__ checks nothing)
InitUnchecked == InitWith("unchecked", SignedFrames)

\* construction by a caller that keeps the results of earlier calls
InitHolding == InitWith("holding", 1..MaxFrames)

\* construction by a caller whose calls are followed to their end
InitRunning == InitWith("running", 1..MaxFrames)

\* the page sequences the caller passes to simulate: any bounded sequence
\* to the first call on an instance, a short one to a call that reuses it
CallerInputs ==
    IF caller = "unchecked" THEN SignedSequences
    ELSE IF caller = "holding" THEN HeldSequences
    ELSE IF pc # "idle" THEN ShortSequences
    ELSE IF caller = "valid" THEN InputSequences
    ELSE BoundedSequences

\* the history the caller still references once the next call has begun
held_at_call ==
    IF caller = "holding" /\ pc = "returned" THEN ret.history ELSE held

\* the old list is emptied in place: self.memory_state[:] = [-1] * n
released_list_cleared(old, n) == Repeat(EMPTY, n)

\* reset, line 11: self.memory_state is bound to a new list; the list it was
\* bound to (the one the previous call returned) keeps its elements
released_list(old, n) == old

\* the final memory state the caller still references once the next call has
\* begun
held_final_at_call ==
    IF caller = "holding" /\ pc = "returned"
    THEN released_list(ret.memory_state, total_frames)
    ELSE held_final

\* the fields of the instance that reset() reads and writes
self_fields ==
    [total_frames |-> total_frames, page_faults |-> page_faults,
     memory_state |-> memory_state]

\* the instance is not in the state a constructor leaves
used ==
    \/ page_faults # 0
    \/ \E k \in 1..Len(memory_state) : memory_state[k] # EMPTY
    \/ access_history # <<>>

\* PageReplacementAlgorithm.reset (lines 10-12) called by the caller itself,
\* before the first simulate call or after one has returned or raised: the
\* fault counter is zeroed and memory_state is bound to a new list of empty
\* slots; access_history and everything the last call returned stay
Reset ==
    /\ pc \in {"idle", "returned", "raised"}
    /\ page_faults' = reset(self_fields).page_faults
    /\ memory_state' = reset(self_fields).memory_state
    /\ ret' = IF pc = "returned"
              THEN [ret EXCEPT
                      !.memory_state = released_list(@, total_frames)]
              ELSE ret
    /\ UNCHANGED <<alg, total_frames, access_history, page_sequence, history,
                   i, pc, stale, caller, held, held_final, ui, tk>>

\* LRUAlgorithm.simulate, lines 19-22: a call starts with reset(),
\* access_history.clear() and history = [], on a new instance as after a
\* call that returned or raised
LRUSimulateBegin ==
    /\ alg = "LRU"
    /\ \/ pc = "idle"
       \/ pc \in {"returned", "raised"} /\ Len(page_sequence) <= MaxStaleLen
    /\ page_faults' = reset(self_fields).page_faults
    /\ memory_state' = reset(self_fields).memory_state
    /\ access_history' = access_history_clear(access_history)
    /\ \E seq \in CallerInputs : page_sequence' = seq
    /\ history' = <<>>
    /\ i' = 0
    /\ pc' = "loop"
    /\ ret' = NoRet
    /\ stale' = used
    /\ held' = held_at_call
    /\ held_final' = held_final_at_call
    /\ UNCHANGED <<alg, total_frames, caller, ui, tk>>

\* LRUAlgorithm.simulate, lines 24-51: one iteration of the loop
LRUSimulateStep ==
    /\ alg = "LRU"
    /\ pc = "loop"
    /\ i < Len(page_sequence)
    /\ LET r == lru_iteration([page_faults |-> page_faults,
                               memory_state |-> memory_state,
                               access_history |-> access_history],
                              page_sequence[i + 1])
       IN  /\ page_faults' = r.page_faults
           /\ memory_state' = r.memory_state
           /\ access_history' = r.access_history
           /\ IF r.raised
              THEN /\ pc' = "raised"
                   /\ UNCHANGED <<history, i>>
              ELSE /\ pc' = "loop"
                   /\ history' = records_after_store(
                                    history_append(history, r.current_state),
                                    r.memory_state)
                   /\ i' = i + 1
    /\ UNCHANGED <<alg, total_frames, page_sequence, ret, stale, caller,
                   held, held_final, ui, tk>>

\* LRUAlgorithm.simulate, line 53
LRUSimulateReturn ==
    /\ alg = "LRU"
    /\ pc = "loop"
    /\ i = Len(page_sequence)
    /\ ret' = [page_faults |-> page_faults, memory_state |-> memory_state,
               history |-> history]
    /\ pc' = "returned"
    /\ UNCHANGED <<alg, total_frames, page_faults, memory_state,
                   access_history, page_sequence, history, i, stale, caller,
                   held, held_final, ui, tk>>

\* OptimalAlgorithm.simulate, lines 70-72: reset() and history = [], on a
\* new instance as after a call that returned or raised
OptSimulateBegin ==
    /\ alg = "OPT"
    /\ \/ pc = "idle"
       \/ pc \in {"returned", "raised"} /\ Len(page_sequence) <= MaxStaleLen
    /\ page_faults' = reset(self_fields).page_faults
    /\ memory_state' = reset(self_fields).memory_state
    /\ \E seq \in CallerInputs : page_sequence' = seq
    /\ history' = <<>>
    /\ i' = 0
    /\ pc' = "loop"
    /\ ret' = NoRet
    /\ stale' = used
    /\ held' = held_at_call
    /\ held_final' = held_final_at_call
    /\ UNCHANGED <<alg, total_frames, access_history, caller, ui, tk>>

\* OptimalAlgorithm.simulate, lines 74-98: one iteration of the loop
OptSimulateStep ==
    /\ alg = "OPT"
    /\ pc = "loop"
    /\ i < Len(page_sequence)
    /\ LET r == opt_iteration([page_faults |-> page_faults,
                               memory_state |-> memory_state],
                              page_sequence, i + 1)
       IN  /\ page_sequence' = r.page_sequence
           /\ page_faults' = r.page_faults
           /\ memory_state' = r.memory_state
           /\ IF r.raised
              THEN /\ pc' = "raised"
                   /\ UNCHANGED <<history, i>>
              ELSE /\ pc' = "loop"
                   /\ history' = records_after_store(
                                    history_append(history, r.current_state),
                                    r.memory_state)
                   /\ i' = i + 1
    /\ UNCHANGED <<alg, total_frames, access_history, ret, stale, caller,
                   held, held_final, ui, tk>>

\* OptimalAlgorithm.simulate, line 100
OptSimulateReturn ==
    /\ alg = "OPT"
    /\ pc = "loop"
    /\ i = Len(page_sequence)
    /\ ret' = [page_faults |-> page_faults, memory_state |-> memory_state,
               history |-> history]
    /\ pc' = "returned"
    /\ UNCHANGED <<alg, total_frames, page_faults, memory_state,
                   access_history, page_sequence, history, i, stale, caller,
                   held, held_final, ui, tk>>

Next ==
    \/ Reset
    \/ LRUSimulateBegin
    \/ LRUSimulateStep
    \/ LRUSimulateReturn
    \/ OptSimulateBegin
    \/ OptSimulateStep
    \/ OptSimulateReturn

Spec == Init /\ [][Next]_vars

\* the same instance driven with arguments that nothing validates
SpecUnchecked == InitUnchecked /\ [][Next]_vars

\* the same instance driven by a caller that keeps earlier results
SpecHolding == InitHolding /\ [][Next]_vars

\* a call that has started runs on: the loop and the return statement are
\* sequential code that nothing suspends; whether the caller calls again is
\* left open
SpecRunning ==
    /\ InitRunning
    /\ [][Next]_vars
    /\ WF_vars(LRUSimulateStep)
    /\ WF_vars(LRUSimulateReturn)
    /\ WF_vars(OptSimulateStep)
    /\ WF_vars(OptSimulateReturn)

----------------------------------------------------------------------------
(* The Streamlit front ends: virtual_memory_sim/src/main.py and web_app.py. *)
(* A text is the sequence of its characters.  Streamlit runs the script     *)
(* from the top on every interaction; st.session_state survives the runs.   *)

\* the characters typed: digits, the separator, a blank, a letter, a sign
Chars == {"1", "2", ",", " ", "x", "-"}

Texts == UNION {[1..n -> Chars] : n \in 0..MaxText}

\* what the user retypes between two script runs
ShortTexts == UNION {[1..n -> Chars] : n \in 0..1}

DigitChars == <<"0", "1", "2", "3", "4", "5", "6", "7", "8", "9">>

\* str.strip() for the blank
Strip(s) ==
    LET solid == {k \in 1..Len(s) : s[k] # " "}
    IN  IF solid = {} THEN <<>>
        ELSE SubSeq(s, CHOOSE k \in solid : \A j \in solid : k <= j,
                       CHOOSE k \in solid : \A j \in solid : j <= k)

\* str.split(sep): the pieces between the separators, empty pieces included
RECURSIVE Split(_, _)
Split(s, sep) ==
    IF ~Contains(s, sep) THEN <<s>>
    ELSE LET k == IndexOf(s, sep)
         IN  <<SubSeq(s, 1, k - 1)>> \o Split(SubSeq(s, k + 1, Len(s)), sep)

\* the value of a string of digits
RECURSIVE DigitsValue(_)
DigitsValue(t) ==
    IF t = <<>> THEN 0
    ELSE DigitsValue(SubSeq(t, 1, Len(t) - 1)) * 10
            + (IndexOf(DigitChars, t[Len(t)]) - 1)

\* int(x) on a stripped text of these characters: an optional sign and at
\* least one digit, else ValueError
python_int(t) ==
    LET signed == t # <<>> /\ t[1] \in {"+", "-"}
        body   == IF signed THEN Tail(t) ELSE t
        ok     == body # <<>> /\ \A k \in 1..Len(body) : Contains(DigitChars, body[k])
    IN  IF ~ok THEN [raised |-> TRUE, value |-> 0]
        ELSE [raised |-> FALSE,
              value |-> IF signed /\ t[1] = "-" THEN 0 - DigitsValue(body)
                                                ELSE DigitsValue(body)]

\* a parser that leaves out the tokens int() rejects
parse_page_sequence_skipping(input_str) ==
    LET tokens == Split(input_str, ",")
        good   == SelectSeq(tokens, LAMBDA x : ~python_int(Strip(x)).raised)
    IN  [value |-> [k \in 1..Len(good) |-> python_int(Strip(good[k])).value],
         error |-> FALSE]

\* parse_page_sequence (main.py lines 18-27): the integers of the tokens, or
\* st.error and [] when int() raises on any token
parse_page_sequence(input_str) ==
    LET tokens == Split(input_str, ",")
    IN  IF \E k \in 1..Len(tokens) : python_int(Strip(tokens[k])).raised
        THEN [value |-> <<>>, error |-> TRUE]
        ELSE [value |-> [k \in 1..Len(tokens) |->
                            python_int(Strip(tokens[k])).value],
              error |-> FALSE]

\* the custom input of web_app.py (lines 674-678): blank tokens are left
\* out before int() is applied
web_custom_sequence(sequence_input) ==
    LET tokens == SelectSeq(Split(sequence_input, ","),
                            LAMBDA x : Strip(x) # <<>>)
    IN  IF \E k \in 1..Len(tokens) : python_int(Strip(tokens[k])).raised
        THEN [value |-> <<>>, error |-> TRUE]
        ELSE [value |-> [k \in 1..Len(tokens) |->
                            python_int(Strip(tokens[k])).value],
              error |-> FALSE]

\* (page_faults / len(sequence)) * 100 (main.py:88, web_app.py:704), kept
\* as an exact fraction; a zero length raises ZeroDivisionError
fault_rate(faults, n) ==
    [raised |-> n = 0, num |-> faults * 100, den |-> n]

NoRate == [raised |-> FALSE, num |-> 0, den |-> 1]

\* the guard left out: simulate runs on whatever the parser returned
main_should_run_always(sequence) == TRUE

\* `if sequence:` (main.py line 73)
main_should_run(sequence) == sequence # <<>>

\* what st.session_state holds when a session starts (web_app.py 451-454)
NewSession == [history |-> <<>>, page_faults |-> 0, has_run |-> FALSE]

\* a script run that has not reached its outcome yet
UiReady(text, session) ==
    [phase |-> "ready", text |-> text, pressed |-> FALSE,
     sequence |-> <<>>, error |-> FALSE, simulated |-> FALSE,
     page_faults |-> session.page_faults, history |-> session.history,
     has_run |-> session.has_run, outcome |-> "none", rate |-> NoRate]

\* one run of main() (main.py lines 29-101) with the widgets at
\* (algorithm_name, n, text) and the button pressed or not
main(algorithm_name, n, text, pressed) ==
    LET parsed   == parse_page_sequence(Strip(text))
        sequence == parsed.value
        runs     == pressed /\ main_should_run(sequence)
        r        == IF algorithm_name = "LRU" THEN LRU_simulate(n, sequence)
                                              ELSE OPT_simulate(n, sequence)
        rate     == fault_rate(r.page_faults, Len(sequence))
    IN  [phase |-> "done", text |-> text, pressed |-> pressed,
         sequence |-> IF pressed THEN sequence ELSE <<>>,
         error |-> pressed /\ parsed.error,
         simulated |-> runs,
         page_faults |-> IF runs THEN r.page_faults ELSE 0,
         history |-> IF runs /\ ~r.raised THEN r.history ELSE <<>>,
         has_run |-> FALSE,
         outcome |-> IF ~runs THEN "none"
                     ELSE IF r.raised THEN "raised"
                     ELSE IF rate.raised THEN "ZeroDivisionError"
                     ELSE "shown",
         rate |-> IF runs /\ ~r.raised /\ ~rate.raised THEN rate ELSE NoRate]

\* one run of the script of web_app.py with custom input (lines 670-706):
\* session is st.session_state before the run, simulate the Run button
web_run(session, algorithm_name, frames, text, simulate) ==
    LET parsed   == web_custom_sequence(text)
        sequence == parsed.value
        enters   == simulate \/ session.has_run
        r        == IF algorithm_name = "LRU"
                    THEN web_lru_replacement(sequence, frames)
                    ELSE web_optimal_replacement(sequence, frames)
        stored   == simulate /\ ~r.raised
        faults   == IF stored THEN r.page_faults ELSE session.page_faults
        rate     == fault_rate(faults, Len(sequence))
    IN  [phase |-> "done", text |-> text, pressed |-> simulate,
         sequence |-> sequence,
         error |-> parsed.error,
         simulated |-> simulate,
         page_faults |-> faults,
         history |-> IF stored THEN r.history ELSE session.history,
         has_run |-> session.has_run \/ stored,
         outcome |-> IF ~enters THEN "none"
                     ELSE IF simulate /\ r.raised THEN "raised"
                     ELSE IF rate.raised THEN "ZeroDivisionError"
                     ELSE "shown",
         rate |-> IF enters /\ ~(simulate /\ r.raised) /\ ~rate.raised
                  THEN rate ELSE NoRate]

\* the values the frame sliders start from: their minimum and their default
\* (main.py line 44, web_app.py lines 474-479)
SliderFrames(c) == IF c = "main" THEN {4, 8} ELSE {2, 4}

\* a session of one of the two front ends, before its first script run
InitStreamlit ==
    /\ caller \in {"main", "web"}
    /\ held = <<>>
    /\ held_final = <<>>
    /\ alg \in {"LRU", "OPT"}
    /\ total_frames \in SliderFrames(caller)
    /\ page_faults = new_instance(total_frames).page_faults
    /\ memory_state = new_instance(total_frames).memory_state
    /\ access_history = <<>>
    /\ page_sequence = <<>>
    /\ history = <<>>
    /\ i = 0
    /\ pc = "idle"
    /\ ret = NoRet
    /\ stale = FALSE
    /\ \E text \in Texts : ui = UiReady(text, NewSession)
    /\ tk = NoTk

\* the session state a finished script run leaves
session_of(u) ==
    [history |-> u.history, page_faults |-> u.page_faults,
     has_run |-> u.has_run]

\* a script run of main.py
MainRun ==
    /\ caller = "main"
    /\ ui.phase = "ready"
    /\ \E pressed \in BOOLEAN :
          ui' = main(alg, total_frames, ui.text, pressed)
    /\ UNCHANGED <<engine_vars, tk>>

\* a script run of web_app.py
WebRun ==
    /\ caller = "web"
    /\ ui.phase = "ready"
    /\ \E simulate \in BOOLEAN :
          ui' = web_run(session_of(ui), alg, total_frames, ui.text, simulate)
    /\ UNCHANGED <<engine_vars, tk>>

\* the user retypes the page sequence; main.py keeps nothing between runs
EditText ==
    /\ ui.phase = "done"
    /\ \E text \in ShortTexts :
          ui' = UiReady(text, IF caller = "web" THEN session_of(ui)
                                                ELSE NewSession)
    /\ UNCHANGED <<engine_vars, tk>>

NextStreamlit ==
    \/ MainRun
    \/ WebRun
    \/ EditText

SpecStreamlit == InitStreamlit /\ [][NextStreamlit]_vars

----------------------------------------------------------------------------
(* The Tk front end: VirtualMemorySimulator of vm_simulator.py.  Callbacks  *)
(* run one at a time on the Tk event loop.  run_simulation calls            *)
(* root.update() (line 462, and lines 521 and 559 of visualize_results),    *)
(* which runs the callbacks that are due before it returns; tk.run says in  *)
(* which of these calls run_simulation stands, "idle" when it is not        *)
(* running.  The Run button pressed inside such a call enters               *)
(* run_simulation again: tk.outer is the stack of the positions of the      *)
(* calls suspended below the one tk.run describes, newest last.             *)
(* A messagebox is modal: while it is open the callback that      *)
(* opened it is suspended, the user cannot reach the main window, and       *)
(* timers still fire.  tk.run is "warning", "no_sequence", "error" or       *)
(* "display_error" while run_simulation stands in the dialog of line 406,   *)
(* 491, 514 or 610; tk.dialogs is the stack of update_process_list calls    *)
(* suspended in the dialog of line 159, newest last.  A process is its pid; *)
(* 0 stands for the empty selection and for last_selected_pid = None.  Of   *)
(* sequence_var only emptiness is kept.                                     *)

Pids == 1..MaxPids

\* get_running_processes (lines 134-157): what ps lists, in any order
PidTables ==
    {t \in UNION {[1..n -> Pids] : n \in 0..MaxPids} :
        \A j, k \in 1..Len(t) : j # k => t[j] # t[k]}

\* get_running_processes (lines 130-160): it returns the table ("listed"),
\* or ps fails with a SubprocessError, the dialog of line 159 is shown and
\* [] is returned ("failed"), or another exception leaves it ("raised": the
\* ValueError of float() at line 157, an OSError of subprocess.run)
ProcessOutcomes ==
    {[kind |-> "listed", table |-> t] : t \in PidTables}
        \cup {[kind |-> "failed", table |-> <<>>],
              [kind |-> "raised", table |-> <<>>]}

\* root.after(...): one more pending timer
schedule(n) == n + 1

\* update_process_list, lines 171-205, once get_running_processes has
\* returned table: process_list and the dropdown are replaced, the selected
\* pid is kept when last_selected_pid is set (and selected again when still
\* listed), else the first entry is selected; the next timer is set
install_process_list(t, table) ==
    LET current_pid == t.selected
        kept        == current_pid # 0 /\ t.last_selected_pid # 0
    IN  [t EXCEPT
           !.process_list = table,
           !.selected = IF kept
                        THEN IF Contains(table, current_pid)
                             THEN current_pid ELSE t.selected
                        ELSE IF table # <<>> THEN table[1]
                                             ELSE t.selected,
           !.periodic = schedule(t.periodic)]

\* update_process_list (lines 162-209) up to its return or to the dialog of
\* line 159: skip and reschedule while simulation_running and not forced;
\* else clear force_refresh (line 170) and call get_running_processes: with
\* a table the list is installed, with an exception only the timer is set
\* (lines 206-209), with a failing ps the call stays suspended in the
\* dialog.  log records the invocation: whether it was forced, whether
\* run_simulation was in progress, whether it got past the guard of line 166
update_process_list(t, ps) ==
    IF t.simulation_running /\ ~t.force_refresh
    THEN [t EXCEPT
            !.periodic = schedule(t.periodic),
            !.log = [forced |-> FALSE, in_run |-> t.run # "idle",
                     refreshed |-> FALSE]]
    ELSE LET t1 == [t EXCEPT
                      !.force_refresh = FALSE,
                      !.log = [forced |-> t.force_refresh,
                               in_run |-> t.run # "idle",
                               refreshed |-> TRUE]]
         IN  IF ps.kind = "raised"
             THEN [t1 EXCEPT !.periodic = schedule(t1.periodic)]
             ELSE IF ps.kind = "failed"
             THEN [t1 EXCEPT !.dialogs = Append(@, [current |-> 0])]
             ELSE install_process_list(t1, ps.table)

\* manual_refresh, lines 441-451: select current again when the dropdown
\* lists it
restore_selection(t, current) ==
    IF current # 0 /\ Contains(t.process_list, current)
    THEN [t EXCEPT !.selected = current]
    ELSE t

\* manual_refresh (lines 428-451) up to its return or to the dialog of
\* line 159, where it keeps the selection it has to restore
manual_refresh(t, ps) ==
    LET current == t.selected
        u       == update_process_list(
                      [t EXCEPT !.force_refresh = TRUE, !.selected = 0],
                      ps)
    IN  IF ps.kind = "failed"
        THEN [u EXCEPT !.dialogs[Len(u.dialogs)] = [current |-> current]]
        ELSE restore_selection(u, current)

\* the dialog of line 159 is closed: get_running_processes returns [] (line
\* 160), the suspended update_process_list runs lines 171-205 and, when
\* manual_refresh had called it, lines 441-451 follow
dialog_closed(t) ==
    LET f == t.dialogs[Len(t.dialogs)]
        u == install_process_list(
                [t EXCEPT !.dialogs = SubSeq(@, 1, Len(@) - 1)], <<>>)
    IN  restore_selection(u, f.current)

\* on_process_selected (lines 241-257) after the user picked pid
on_process_selected(t, pid) ==
    [t EXCEPT !.selected = pid,
              !.last_selected_pid = pid,
              !.sequence_filled = FALSE,
              !.simulation_running = TRUE,
              !.enable = schedule(t.enable)]

\* enable_refresh (lines 289-292)
enable_refresh(t) == [t EXCEPT !.simulation_running = FALSE]

\* __init__ (lines 90-127) up to the first update_process_list()
constructed ==
    [run |-> "idle", simulation_running |-> FALSE, force_refresh |-> TRUE,
     last_selected_pid |-> 0, selected |-> 0, process_list |-> <<>>,
     sequence_filled |-> FALSE, periodic |-> 0, enable |-> 0,
     dialogs |-> <<>>, outer |-> <<>>,
     log |-> [forced |-> FALSE, in_run |-> FALSE, refreshed |-> FALSE]]

\* the positions of run_simulation inside a messagebox
RunDialogs == {"warning", "no_sequence", "error", "display_error"}

\* a messagebox is open: the main window takes no input
modal(t) == t.dialogs # <<>> \/ t.run \in RunDialogs

\* the window after __init__ (line 128 included: no timer is pending yet, so
\* nothing runs inside a dialog of the first update_process_list)
InitTk ==
    /\ caller = "tk"
    /\ held = <<>>
    /\ held_final = <<>>
    /\ alg \in {"LRU", "OPT"}
    /\ total_frames = 4
    /\ page_faults = new_instance(total_frames).page_faults
    /\ memory_state = new_instance(total_frames).memory_state
    /\ access_history = <<>>
    /\ page_sequence = <<>>
    /\ history = <<>>
    /\ i = 0
    /\ pc = "idle"
    /\ ret = NoRet
    /\ stale = FALSE
    /\ ui = NoUi
    /\ \E ps \in ProcessOutcomes :
          tk = IF ps.kind = "failed"
               THEN dialog_closed(update_process_list(constructed, ps))
               ELSE update_process_list(constructed, ps)

\* the user picks an entry of the dropdown
TkSelectProcess ==
    /\ ~modal(tk)
    /\ tk.enable < MaxTimers
    /\ \E k \in 1..Len(tk.process_list) :
          tk' = on_process_selected(tk, tk.process_list[k])
    /\ UNCHANGED <<engine_vars, ui>>

\* the timer set by on_process_selected fires
TkEnableRefresh ==
    /\ tk.enable > 0
    /\ tk' = enable_refresh([tk EXCEPT !.enable = tk.enable - 1])
    /\ UNCHANGED <<engine_vars, ui>>

\* a timer set by update_process_list fires
TkPeriodicUpdate ==
    /\ tk.periodic > 0
    /\ \E ps \in ProcessOutcomes :
          tk' = update_process_list([tk EXCEPT !.periodic = tk.periodic - 1],
                                    ps)
    /\ UNCHANGED <<engine_vars, ui>>

\* the refresh button
TkManualRefresh ==
    /\ ~modal(tk)
    /\ tk.periodic < MaxTimers
    /\ \E ps \in ProcessOutcomes : tk' = manual_refresh(tk, ps)
    /\ UNCHANGED <<engine_vars, ui>>

\* the user closes the newest dialog of line 159
TkDialogClose ==
    /\ tk.dialogs # <<>>
    /\ tk' = dialog_closed(tk)
    /\ UNCHANGED <<engine_vars, ui>>

\* the user fills or clears the page-sequence entry
TkTypeSequence ==
    /\ ~modal(tk)
    /\ tk' = [tk EXCEPT !.sequence_filled = ~tk.sequence_filled]
    /\ UNCHANGED <<engine_vars, ui>>

\* run_simulation returns without the assignment self.simulation_running =
\* False
run_simulation_exit_flag_kept(t) ==
    IF t.outer = <<>>
    THEN [t EXCEPT !.run = "idle"]
    ELSE [t EXCEPT !.run = t.outer[Len(t.outer)],
                   !.outer = SubSeq(@, 1, Len(@) - 1)]

\* run_simulation, the three ways out: lines 492-493 (no sequence), line 508
\* (success) and lines 515-516 (exception); each assigns
\* self.simulation_running = False before the method returns, to the event
\* loop or to the root.update() of the run_simulation call it interrupted
run_simulation_exit(t) ==
    IF t.outer = <<>>
    THEN [t EXCEPT !.run = "idle", !.simulation_running = FALSE]
    ELSE [t EXCEPT !.run = t.outer[Len(t.outer)],
                   !.outer = SubSeq(@, 1, Len(@) - 1),
                   !.simulation_running = FALSE]

\* the Run button (line 287), from the event loop or from a root.update()
\* of a run_simulation call, which then waits below the new one;
\* run_simulation, lines 453-462: set the flag and enter root.update()
TkRunStart ==
    /\ ~modal(tk)
    /\ \/ tk.run = "idle"
       \/ Len(tk.outer) < MaxNested
    /\ tk' = [tk EXCEPT !.simulation_running = TRUE,
                        !.run = "update1",
                        !.outer = IF tk.run = "idle" THEN @
                                  ELSE Append(@, tk.run)]
    /\ UNCHANGED <<engine_vars, ui>>

\* run_simulation, lines 464-521: read the inputs and run the algorithm.
\* With a selected process and an empty entry the sequence comes from the
\* process (line 477 keeps its pid, line 483 fills the entry), and
\* get_process_memory_pages may first show the warning of line 406; else
\* the sequence is parsed from the entry.  An empty sequence leads to the
\* dialog of line 491; an exception (int() of lines 464 and 487, or, once
\* the sequence is there, lines 496-502) to the dialog of line 514;
\* otherwise visualize_results enters root.update() (line 521)
TkRunCompute ==
    /\ tk.run = "update1"
    /\ tk.dialogs = <<>>
    /\ \E outcome \in {"sequence", "warning", "empty", "exception",
                       "late_exception"} :
          LET from_process == tk.selected # 0 /\ ~tk.sequence_filled
              t1 == IF from_process
                    THEN [tk EXCEPT !.last_selected_pid = tk.selected,
                                    !.sequence_filled = TRUE]
                    ELSE tk
          IN  /\ (outcome = "empty") => ~from_process
              /\ (outcome \in {"sequence", "late_exception"}) =>
                    (tk.sequence_filled \/ tk.selected # 0)
              /\ (outcome = "warning") => from_process
              /\ tk' = CASE outcome = "sequence" ->
                              [t1 EXCEPT !.run = "update2"]
                         [] outcome = "late_exception" ->
                              [t1 EXCEPT !.run = "error"]
                         [] outcome = "warning" ->
                              [tk EXCEPT !.last_selected_pid = tk.selected,
                                         !.run = "warning"]
                         [] outcome = "empty" ->
                              [tk EXCEPT !.run = "no_sequence"]
                         [] outcome = "exception" ->
                              [tk EXCEPT !.run = "error"]
    /\ UNCHANGED <<engine_vars, ui>>

\* the warning of line 406 is closed: get_process_memory_pages returns its
\* fallback sequence, line 483 fills the entry, and the run goes on to
\* root.update() of line 521 or, with an exception in lines 496-502, to the
\* dialog of line 514
TkRunWarningClose ==
    /\ tk.run = "warning"
    /\ tk.dialogs = <<>>
    /\ \E next \in {"update2", "error"} :
          tk' = [tk EXCEPT !.sequence_filled = TRUE, !.run = next]
    /\ UNCHANGED <<engine_vars, ui>>

\* visualize_results, lines 523-559: plot and enter root.update() again
TkRunPlot ==
    /\ tk.run = "update2"
    /\ tk.dialogs = <<>>
    /\ tk' = [tk EXCEPT !.run = "update3"]
    /\ UNCHANGED <<engine_vars, ui>>

\* visualize_results from line 560 (or from the except of line 562 when
\* plotting failed): the results are written and run_simulation ends at
\* line 508, or writing them fails and the dialog of line 610 opens, or
\* line 524 raises before anything is plotted and the dialog of line 514
\* opens
TkRunFinish ==
    /\ tk.run \in {"update2", "update3"}
    /\ tk.dialogs = <<>>
    /\ \E outcome \in {"shown", "display_error", "error"} :
          /\ (outcome = "error") => tk.run = "update2"
          /\ tk' = IF outcome = "shown"
                   THEN run_simulation_exit(tk)
                   ELSE [tk EXCEPT !.run = outcome]
    /\ UNCHANGED <<engine_vars, ui>>

\* a dialog of run_simulation is closed: lines 492-493 after the one of line
\* 491, lines 515-516 after the one of line 514, lines 612-621 and 508 after
\* the one of line 610
TkRunDialogClose ==
    /\ tk.run \in {"no_sequence", "error", "display_error"}
    /\ tk.dialogs = <<>>
    /\ tk' = run_simulation_exit(tk)
    /\ UNCHANGED <<engine_vars, ui>>

NextTk ==
    \/ TkSelectProcess
    \/ TkEnableRefresh
    \/ TkPeriodicUpdate
    \/ TkManualRefresh
    \/ TkDialogClose
    \/ TkTypeSequence
    \/ TkRunStart
    \/ TkRunCompute
    \/ TkRunWarningClose
    \/ TkRunPlot
    \/ TkRunFinish
    \/ TkRunDialogClose

SpecTk == InitTk /\ [][NextTk]_vars

----------------------------------------------------------------------------
(* Vocabulary of the properties *)

\* no page other than the sentinel occupies two slots of frames
NoDuplicates(frames) ==
    \A a, b \in 1..Len(frames) :
        (a # b /\ frames[a] = frames[b]) => frames[a] = EMPTY

\* the pages held by frames
Residents(frames) == {frames[k] : k \in 1..Len(frames)} \ {EMPTY}

\* the distinct pages of a reference sequence
DistinctPages(seq) == {seq[k] : k \in 1..Len(seq)}

\* position k is the first reference to its page
FirstReference(seq, k) == \A j \in 1..(k - 1) : seq[j] # seq[k]

\* positions of the records flagged as faults
FaultRecords(h) == {k \in 1..Len(h) : h[k].page_fault}

\* some reference of the returned run overwrote a resident page
Evicted ==
    \E k \in 1..Len(ret.history) :
        /\ ret.history[k].page_fault
        /\ ~Contains(ret.history[k].memory_state, EMPTY)

----------------------------------------------------------------------------
(* C1: no duplicate residents.  In every snapshot recorded in the history   *)
(* and in the returned final memory state, no page other than the sentinel  *)
(* -1 occupies more than one slot (both policies, frames >= 1, pages >= 0). *)
C1_NoDuplicateResidents ==
    /\ \A k \in 1..Len(history) : NoDuplicates(history[k].memory_state)
    /\ pc = "returned" =>
          /\ NoDuplicates(ret.memory_state)
          /\ \A k \in 1..Len(ret.history) :
                NoDuplicates(ret.history[k].memory_state)

\* a returned run with an eviction and a hit on a full table
C1_Witness ==
    /\ pc = "returned"
    /\ Evicted
    /\ \E k \in 1..Len(ret.history) :
          /\ ~ret.history[k].page_fault
          /\ ~Contains(ret.history[k].memory_state, EMPTY)

(* C2: fixed frame-table size.  The live frame table, every snapshot and    *)
(* the returned final state have exactly total_frames slots, so at most     *)
(* total_frames slots are non-empty.                                        *)
C2_FixedFrameTableSize ==
    /\ Len(memory_state) = total_frames
    /\ Cardinality({k \in 1..Len(memory_state) : memory_state[k] # EMPTY})
          <= total_frames
    /\ \A k \in 1..Len(history) :
          Len(history[k].memory_state) = total_frames
    /\ pc = "returned" =>
          /\ Len(ret.memory_state) = total_frames
          /\ \A k \in 1..Len(ret.history) :
                Len(ret.history[k].memory_state) = total_frames

\* a returned run that filled every slot and then went on
C2_Witness ==
    /\ pc = "returned"
    /\ ~Contains(ret.memory_state, EMPTY)
    /\ Len(ret.history) > total_frames

(* C3: history completeness and order.  The history has one record per      *)
(* processed reference, in reference order; the returned history has        *)
(* len(page_sequence) records and record k is for page_sequence[k].         *)
C3_HistoryCompleteInOrder ==
    /\ pc = "loop" =>
          /\ Len(history) = i
          /\ \A k \in 1..Len(history) :
                history[k].page_accessed = page_sequence[k]
    /\ pc = "returned" =>
          /\ Len(ret.history) = Len(page_sequence)
          /\ \A k \in 1..Len(page_sequence) :
                ret.history[k].page_accessed = page_sequence[k]

\* a returned run of at least three references with a hit and a fault
C3_Witness ==
    /\ pc = "returned"
    /\ Len(page_sequence) >= 3
    /\ FaultRecords(ret.history) # {}
    /\ FaultRecords(ret.history) # 1..Len(ret.history)

(* C4: fault flag.  A record's page_fault is true exactly when its          *)
(* page_accessed does not occur in its memory_state snapshot.               *)
C4_FaultFlagIffNotInSnapshot ==
    /\ \A k \in 1..Len(history) :
          history[k].page_fault <=>
             ~Contains(history[k].memory_state, history[k].page_accessed)
    /\ pc = "returned" =>
          \A k \in 1..Len(ret.history) :
             ret.history[k].page_fault <=>
                ~Contains(ret.history[k].memory_state,
                          ret.history[k].page_accessed)

\* a returned run with a hit, and a fault that hit a full table
C4_Witness ==
    /\ pc = "returned"
    /\ \E k \in 1..Len(ret.history) : ~ret.history[k].page_fault
    /\ \E k \in 1..Len(ret.history) :
          /\ ret.history[k].page_fault
          /\ ~Contains(ret.history[k].memory_state, EMPTY)

(* C5: fault count accounting.  The returned fault count is the number of   *)
(* history records flagged as faults and is at most len(page_sequence),     *)
(* also on a second or later call on the same instance.                     *)
C5_FaultCountIsNumberOfFaultRecords ==
    pc = "returned" =>
        /\ ret.page_faults = Cardinality(FaultRecords(ret.history))
        /\ ret.page_faults <= Len(page_sequence)

\* a later call on a used instance returned with faults and hits
C5_Witness ==
    /\ pc = "returned"
    /\ stale
    /\ ret.page_faults > 0
    /\ ret.page_faults < Len(page_sequence)

(* C6: first-occurrence faults.  Every record of a first reference to a     *)
(* page is a fault; a non-empty sequence returns a fault count above 0.     *)
C6_FirstOccurrenceFaults ==
    /\ pc \in {"loop", "returned"} =>
          \A k \in 1..Len(history) :
             FirstReference(page_sequence, k) => history[k].page_fault
    /\ (pc = "returned" /\ page_sequence # <<>>) => ret.page_faults > 0

\* a returned run whose last reference is to a new page, after a hit
C6_Witness ==
    /\ pc = "returned"
    /\ Len(page_sequence) >= 3
    /\ FirstReference(page_sequence, Len(page_sequence))
    /\ \E k \in 1..Len(ret.history) : ~ret.history[k].page_fault

(* C7: Optimal never exceeds LRU.  On the same frame count and sequence the *)
(* fault count returned by OptimalAlgorithm.simulate is at most the one     *)
(* returned by LRUAlgorithm.simulate.                                       *)
C7_OptimalNeverExceedsLRU ==
    pc = "returned" =>
        /\ alg = "OPT" =>
              ret.page_faults
                 <= LRU_simulate(total_frames, page_sequence).page_faults
        /\ alg = "LRU" =>
              OPT_simulate(total_frames, page_sequence).page_faults
                 <= ret.page_faults

\* an Optimal run with an eviction that beat LRU strictly
C7_Witness ==
    /\ pc = "returned"
    /\ alg = "OPT"
    /\ Evicted
    /\ ret.page_faults
          < LRU_simulate(total_frames, page_sequence).page_faults

(* C8: everything fits.  When total_frames >= the number of distinct pages, *)
(* the fault count is the number of distinct pages, the faults are exactly  *)
(* the first references, no page is evicted, and the final memory state has *)
(* total_frames minus distinct-pages empty slots.                           *)
C8_EverythingFits ==
    (pc = "returned"
       /\ total_frames >= Cardinality(DistinctPages(page_sequence))) =>
        /\ ret.page_faults = Cardinality(DistinctPages(page_sequence))
        /\ \A k \in 1..Len(ret.history) :
              ret.history[k].page_fault <=> FirstReference(page_sequence, k)
        /\ \A k \in 1..Len(ret.history) :
              /\ Residents(ret.history[k].memory_state)
                    \subseteq Residents(ret.memory_state)
              /\ \A j \in 1..k :
                    Residents(ret.history[j].memory_state)
                       \subseteq Residents(ret.history[k].memory_state)
        /\ Count(ret.memory_state, EMPTY)
              = total_frames - Cardinality(DistinctPages(page_sequence))

\* a fitting run with repeated pages that leaves a slot empty, and one that
\* fills the table exactly
C8_Witness ==
    /\ pc = "returned"
    /\ total_frames >= Cardinality(DistinctPages(page_sequence))
    /\ Cardinality(DistinctPages(page_sequence)) >= 2
    /\ Len(page_sequence) > Cardinality(DistinctPages(page_sequence))
    /\ Count(ret.memory_state, EMPTY) = 1

(* C9: empty sequence.  simulate([]) returns fault count 0, an empty        *)
(* history and an all-empty final memory state, also on an instance that    *)
(* simulated a non-empty sequence before.                                   *)
C9_EmptySequence ==
    (pc = "returned" /\ page_sequence = <<>>) =>
        /\ ret.page_faults = 0
        /\ ret.history = <<>>
        /\ Len(ret.memory_state) = total_frames
        /\ \A k \in 1..Len(ret.memory_state) : ret.memory_state[k] = EMPTY

\* simulate([]) returned on an instance used by an earlier call
C9_Witness ==
    /\ pc = "returned"
    /\ page_sequence = <<>>
    /\ stale

(* C10 as stated: LRUAlgorithm(3).simulate([1,2,3,4,1,2,5,1,2,3,4,5])      *)
(* returns a fault count of exactly 9.                                      *)
C10_TestSequenceNineFaults ==
    (pc = "returned" /\ alg = "LRU" /\ total_frames = 3
       /\ page_sequence = TestSequence) => ret.page_faults = 9

(* C10 amended: LRUAlgorithm(3).simulate([1,2,3,4,1,2,5,1,2,3,4,5])        *)
(* returns a fault count of exactly 10 and the final memory state [3,4,5].  *)
C10_TestSequenceTenFaults ==
    (pc = "returned" /\ alg = "LRU" /\ total_frames = 3
       /\ page_sequence = TestSequence) =>
        /\ ret.page_faults = 10
        /\ ret.memory_state = <<3, 4, 5>>

\* the regression scenario has returned
C10_Witness ==
    /\ pc = "returned"
    /\ alg = "LRU"
    /\ total_frames = 3
    /\ page_sequence = TestSequence
    /\ Len(ret.history) = 12

----------------------------------------------------------------------------
\* what a newly constructed instance of the same class and frame count
\* returns for the sequence of the current call
FreshResult ==
    IF alg = "LRU" THEN LRU_simulate(total_frames, page_sequence)
                   ELSE OPT_simulate(total_frames, page_sequence)

(* C12: instance reuse.  A call on an instance that an earlier call left    *)
(* with faults, resident pages or recency entries does not raise and        *)
(* returns exactly the fault count, final memory state and history that a   *)
(* newly constructed instance with the same frame count returns.            *)
C12_ReuseEqualsFresh ==
    /\ stale => pc # "raised"
    /\ (stale /\ pc = "returned") =>
          /\ ~FreshResult.raised
          /\ ret.page_faults = FreshResult.page_faults
          /\ ret.memory_state = FreshResult.memory_state
          /\ ret.history = FreshResult.history

\* an LRU call on a used instance returned after an eviction
C12_Witness ==
    /\ pc = "returned"
    /\ stale
    /\ alg = "LRU"
    /\ Evicted

(* C13: invalid frame count is rejected.  With a frame count <= 0 no call   *)
(* returns, and the fault count stays 0 (the failure comes before any       *)
(* mutation), for every reference sequence including the empty one.         *)
C13_InvalidFrameCountRejected ==
    total_frames <= 0 =>
        /\ pc # "returned"
        /\ page_faults = 0
        /\ history = <<>>

(* C14: sentinel collision is surfaced.  With a frame count >= 1, a call    *)
(* whose sequence holds a negative page id never records that reference     *)
(* (as a hit or as a fault), never stores it in a frame and never returns.  *)
C14_NegativePageAborts ==
    total_frames >= 1 =>
        /\ \A k \in 1..Len(history) : history[k].page_accessed >= 0
        /\ \A k \in 1..Len(memory_state) :
              memory_state[k] = EMPTY \/ memory_state[k] >= 0
        /\ pc = "returned" =>
              \A k \in 1..Len(page_sequence) : page_sequence[k] >= 0

----------------------------------------------------------------------------
\* the results of the copies of the engine on the arguments of the call
OrigResult ==
    IF alg = "LRU" THEN orig_lru_replace(total_frames, page_sequence)
                   ELSE orig_optimal_replace(total_frames, page_sequence)

WebResult ==
    IF alg = "LRU" THEN web_lru_replacement(page_sequence, total_frames)
                   ELSE web_optimal_replacement(page_sequence, total_frames)

\* pages, states and flags of a history are those of snapshots taken before
\* each step: the first state is all-empty, a record is a fault exactly when
\* its page is missing from its state, and the flags add up to the count
BeforeStates(pages, states, flags, count) ==
    /\ Len(states) >= 1 => states[1] = Repeat(EMPTY, total_frames)
    /\ \A k \in 1..Len(states) : flags[k] <=> ~Contains(states[k], pages[k])
    /\ Cardinality({k \in 1..Len(states) : flags[k]}) = count

\* ... of snapshots taken after each step: every state holds its page, and a
\* record is a fault exactly when its page is missing from the state of the
\* record before it (the empty table for the first record)
AfterStates(pages, states, flags, count) ==
    /\ \A k \in 1..Len(states) : Contains(states[k], pages[k])
    /\ \A k \in 1..Len(states) :
          flags[k] <=>
             ~Contains(IF k = 1 THEN Repeat(EMPTY, total_frames)
                                ELSE states[k - 1], pages[k])
    /\ Cardinality({k \in 1..Len(states) : flags[k]}) = count

SimulateBefore ==
    BeforeStates([k \in 1..Len(ret.history) |-> ret.history[k].page_accessed],
                 [k \in 1..Len(ret.history) |-> ret.history[k].memory_state],
                 [k \in 1..Len(ret.history) |-> ret.history[k].page_fault],
                 ret.page_faults)

OrigBefore ==
    LET h == OrigResult.history
    IN  BeforeStates([k \in 1..Len(h) |-> h[k].page],
                     [k \in 1..Len(h) |-> h[k].state],
                     [k \in 1..Len(h) |-> h[k].fault],
                     OrigResult.page_faults)

WebBefore ==
    LET h == WebResult.history
    IN  BeforeStates([k \in 1..Len(h) |-> h[k].page],
                     [k \in 1..Len(h) |-> h[k].state],
                     [k \in 1..Len(h) |-> h[k].fault],
                     WebResult.page_faults)

WebAfter ==
    LET h == WebResult.history
    IN  AfterStates([k \in 1..Len(h) |-> h[k].page],
                    [k \in 1..Len(h) |-> h[k].state],
                    [k \in 1..Len(h) |-> h[k].fault],
                    WebResult.page_faults)

(* C15 as stated: in simulate, in lru_replace / optimal_replace of          *)
(* original_vm.py and in lru_replacement / optimal_replacement of           *)
(* web_app.py, the state stored in record i is the frame table before       *)
(* step i's mutation; the first record's state is all-empty.                *)
C15_AllSnapshotsBefore ==
    pc = "returned" =>
        /\ SimulateBefore
        /\ Len(OrigResult.history) = Len(page_sequence) /\ OrigBefore
        /\ Len(WebResult.history) = Len(page_sequence) /\ WebBefore

(* C15 amended: simulate and original_vm.py store the frame table before    *)
(* step i's mutation (first record all-empty); web_app.py stores the table  *)
(* after step i's mutation, so every record's state holds its page.         *)
C15_SnapshotsBeforeExceptWebApp ==
    pc = "returned" =>
        /\ SimulateBefore
        /\ Len(OrigResult.history) = Len(page_sequence) /\ OrigBefore
        /\ Len(WebResult.history) = Len(page_sequence) /\ WebAfter

\* a run with hits, faults and an eviction has returned
C15_Witness ==
    /\ pc = "returned"
    /\ Evicted
    /\ \E k \in 1..Len(ret.history) : ~ret.history[k].page_fault
    /\ Len(WebResult.history) = Len(page_sequence)
    /\ WebResult.history[1].state # Repeat(EMPTY, total_frames)

----------------------------------------------------------------------------
(* Vocabulary of the replacement rules, stated on the reference sequence *)

\* position of the last reference to p among the first k references (0: none)
LastRef(seq, k, p) ==
    IF \E j \in 1..k : seq[j] = p
    THEN CHOOSE j \in 1..k : seq[j] = p /\ \A m \in (j + 1)..k : seq[m] # p
    ELSE 0

\* position of the next reference to p after position k (Len + 1: never)
NextRef(seq, k, p) ==
    IF \E j \in (k + 1)..Len(seq) : seq[j] = p
    THEN CHOOSE j \in (k + 1)..Len(seq) :
            seq[j] = p /\ \A m \in (k + 1)..(j - 1) : seq[m] # p
    ELSE Len(seq) + 1

\* the frame table of the current call: the live table while the call runs,
\* the final memory state it returned once it has returned (the caller may
\* have reset() the instance since)
RunTable == IF pc = "returned" THEN ret.memory_state ELSE memory_state

\* the frame table after step k of the current call
TableAfter(k) ==
    IF k < Len(history) THEN history[k + 1].memory_state ELSE RunTable

\* step k of the current call overwrote a resident page
EvictionAt(k) ==
    /\ history[k].page_fault
    /\ ~Contains(history[k].memory_state, EMPTY)

\* the slot of the least recently referenced resident page before step k
LRUVictimSlot(frames, k) ==
    CHOOSE s \in 1..Len(frames) :
        \A t \in 1..Len(frames) :
            LastRef(page_sequence, k - 1, frames[s])
               <= LastRef(page_sequence, k - 1, frames[t])

\* the lowest slot among the resident pages referenced farthest after step k
OptVictimSlot(frames, k) ==
    CHOOSE s \in 1..Len(frames) :
        /\ \A t \in 1..Len(frames) :
              NextRef(page_sequence, k, frames[t])
                 <= NextRef(page_sequence, k, frames[s])
        /\ \A t \in 1..(s - 1) :
              NextRef(page_sequence, k, frames[t])
                 < NextRef(page_sequence, k, frames[s])

\* the documented step rule applied to a snapshot
StepRule(frames, page, is_fault, k) ==
    IF ~is_fault THEN frames
    ELSE IF Contains(frames, EMPTY)
         THEN [frames EXCEPT ![IndexOf(frames, EMPTY)] = page]
         ELSE IF alg = "LRU"
              THEN [frames EXCEPT ![LRUVictimSlot(frames, k)] = page]
              ELSE [frames EXCEPT ![OptVictimSlot(frames, k)] = page]

(* C16: the history is a replayable transition log.  Applying the step rule *)
(* (hit: no change; fault: fill the lowest empty slot, else overwrite the   *)
(* policy's victim slot) to the snapshot of record k gives the snapshot of  *)
(* record k+1, and for the last record the final memory state.              *)
C16_HistoryReplays ==
    /\ pc \in {"loop", "returned"} =>
          \A k \in 1..Len(history) :
             StepRule(history[k].memory_state, history[k].page_accessed,
                      history[k].page_fault, k) = TableAfter(k)
    /\ pc = "returned" => ret.history = history

\* a returned run with a hit and, later, an eviction
C16_Witness ==
    /\ pc = "returned"
    /\ \E k \in 1..Len(history) :
          /\ EvictionAt(k)
          /\ \E j \in 1..(k - 1) : ~history[j].page_fault

(* C18: LRU victim choice.  On every LRU fault with no empty slot exactly   *)
(* one slot changes, and the page it held has its last reference in the     *)
(* processed prefix strictly before that of every other resident page.      *)
C18_LRUVictimIsLeastRecentlyUsed ==
    (alg = "LRU" /\ pc \in {"loop", "returned"}) =>
        \A k \in 1..Len(history) :
           EvictionAt(k) =>
              \E s \in 1..total_frames :
                 /\ TableAfter(k) =
                       [history[k].memory_state
                          EXCEPT ![s] = history[k].page_accessed]
                 /\ \A t \in 1..total_frames :
                       t # s =>
                          LastRef(page_sequence, k - 1,
                                  history[k].memory_state[s])
                             < LastRef(page_sequence, k - 1,
                                       history[k].memory_state[t])

\* an LRU eviction whose victim is not in slot 0 after a hit refreshed the
\* page of slot 0
C18_Witness ==
    /\ alg = "LRU"
    /\ pc = "returned"
    /\ total_frames >= 2
    /\ \E k \in 1..Len(history) :
          /\ EvictionAt(k)
          /\ TableAfter(k)[1] = history[k].memory_state[1]
          /\ \E j \in 1..(k - 1) : ~history[j].page_fault

(* C19: Optimal victim choice.  On every Optimal fault at step k with no    *)
(* empty slot exactly one slot changes, and no other resident page has its  *)
(* next reference after step k strictly later than the page it held (a page *)
(* that never recurs counts as infinitely far).                             *)
C19_OptimalVictimIsFarthest ==
    (alg = "OPT" /\ pc \in {"loop", "returned"}) =>
        \A k \in 1..Len(history) :
           EvictionAt(k) =>
              \E s \in 1..total_frames :
                 /\ TableAfter(k) =
                       [history[k].memory_state
                          EXCEPT ![s] = history[k].page_accessed]
                 /\ \A t \in 1..total_frames :
                       NextRef(page_sequence, k, history[k].memory_state[t])
                          <= NextRef(page_sequence, k,
                                     history[k].memory_state[s])

\* an Optimal eviction that spared a page of a lower slot because it is
\* referenced again
C19_Witness ==
    /\ alg = "OPT"
    /\ pc = "returned"
    /\ \E k \in 1..Len(history) :
          /\ EvictionAt(k)
          /\ TableAfter(k)[1] = history[k].memory_state[1]
          /\ NextRef(page_sequence, k, history[k].memory_state[1])
                <= Len(page_sequence)

(* C17: snapshots do not alias the live table.  A record that has been      *)
(* appended keeps its value through every later step and the return of the  *)
(* same run, and the history a caller received from one call stays as it    *)
(* was returned while later simulate calls run on the same instance.        *)
C17_RecordsNeverChange ==
    [][ /\ pc = "loop" =>
             /\ Len(history') >= Len(history)
             /\ \A k \in 1..Len(history) : history'[k] = history[k]
             /\ held' = held
        /\ (pc = "loop" /\ pc' = "returned") => ret'.history = history
        /\ (pc = "returned" /\ caller = "holding" /\ pc' = "loop") =>
              held' = ret.history
        /\ (pc = "returned" /\ pc' = "returned") =>
              /\ ret'.history = ret.history
              /\ held' = held
      ]_vars

\* a second call has returned different records while the caller still holds
\* the history of the call before it, whose table changed between its steps
C17_Witness ==
    /\ caller = "holding"
    /\ pc = "returned"
    /\ Len(held) = 2
    /\ held[1].memory_state # held[2].memory_state
    /\ Len(history) = 2
    /\ history[2].memory_state # history[1].memory_state
    /\ history # held

(* C20: input immutability.  From the first iteration of a simulate call to *)
(* its return, no step of either policy changes the page_sequence list the  *)
(* caller passed: it keeps its length and its elements.                     *)
C20_PageSequenceUntouched ==
    [][ pc = "loop" => page_sequence' = page_sequence ]_vars

\* an Optimal run that took the slice page_sequence[i+1:] for an eviction has
\* returned, and the records still follow the caller's list
C20_Witness ==
    /\ alg = "OPT"
    /\ pc = "returned"
    /\ \E k \in 1..Len(history) : EvictionAt(k)
    /\ Len(page_sequence) = Len(history)
    /\ \A k \in 1..Len(history) : history[k].page_accessed = page_sequence[k]

----------------------------------------------------------------------------
(* Step-level behaviour of the core *)

\* the step about to run references a page that is resident
NextIsHit ==
    /\ pc = "loop"
    /\ i < Len(page_sequence)
    /\ Contains(memory_state, page_sequence[i + 1])

\* the step about to run references a page that is not resident
NextIsFault ==
    /\ pc = "loop"
    /\ i < Len(page_sequence)
    /\ ~Contains(memory_state, page_sequence[i + 1])

\* the keys of the recency tracker
Keys(d) == {d[k] : k \in 1..Len(d)}

(* C21: a hit leaves the frame table unchanged.  For both policies a step   *)
(* whose page is resident changes no slot and not the fault count, and its  *)
(* record is not a fault; for LRU the tracker keeps its keys and only their *)
(* order may change, the page becoming the most recent.                     *)
C21_HitChangesNoFrame ==
    [][ NextIsHit =>
           /\ memory_state' = memory_state
           /\ page_faults' = page_faults
           /\ pc' = "loop"
           /\ ~history'[Len(history')].page_fault
           /\ alg = "LRU" =>
                 /\ Keys(access_history') = Keys(access_history)
                 /\ Len(access_history') = Len(access_history)
                 /\ access_history'[Len(access_history')]
                       = page_sequence[i + 1]
      ]_vars

\* an LRU run with a hit on a page that was not the most recent one
C21_Witness ==
    /\ alg = "LRU"
    /\ pc = "returned"
    /\ \E k \in 2..Len(history) :
          /\ ~history[k].page_fault
          /\ history[k].page_accessed # history[k - 1].page_accessed

(* C22: fault placement.  For both policies a fault changes exactly one     *)
(* slot, which then holds the referenced page.  If a slot is empty the slot *)
(* changed is the lowest-index empty one and every resident page stays; a   *)
(* resident page is overwritten only when no slot is empty.                 *)
C22_FaultChangesOneSlot ==
    [][ NextIsFault =>
           /\ pc' = "loop"
           /\ \E s \in 1..total_frames :
                 /\ memory_state' =
                       [memory_state EXCEPT ![s] = page_sequence[i + 1]]
                 /\ Contains(memory_state, EMPTY) =>
                       /\ memory_state[s] = EMPTY
                       /\ \A t \in 1..(s - 1) : memory_state[t] # EMPTY
           /\ Contains(memory_state, EMPTY) =>
                 Residents(memory_state) \subseteq Residents(memory_state')
      ]_vars

\* a run with a fault that filled an empty slot other than slot 0 and a
\* fault that overwrote a resident page
C22_Witness ==
    /\ pc = "returned"
    /\ \E k \in 1..Len(history) : EvictionAt(k)
    /\ \E k \in 1..Len(history) :
          /\ history[k].page_fault
          /\ Contains(history[k].memory_state, EMPTY)
          /\ history[k].memory_state[1] # EMPTY

(* C23: Optimal tie-break.  When the slot overwritten by an Optimal fault   *)
(* held a page whose next-use distance is shared by another resident page,  *)
(* none of the tied pages recurs and the slot overwritten is the lowest of  *)
(* the tied slots.                                                          *)
C23_OptimalTieLowestFrame ==
    (alg = "OPT" /\ pc \in {"loop", "returned"}) =>
        \A k \in 1..Len(history) :
           EvictionAt(k) =>
              \A s, t \in 1..total_frames :
                 ( /\ s # t
                   /\ TableAfter(k)[s] # history[k].memory_state[s]
                   /\ NextRef(page_sequence, k, history[k].memory_state[t])
                         = NextRef(page_sequence, k,
                                   history[k].memory_state[s]) )
                 => /\ s < t
                    /\ NextRef(page_sequence, k, history[k].memory_state[s])
                          = Len(page_sequence) + 1

\* an Optimal eviction with two resident pages that never recur
C23_Witness ==
    /\ alg = "OPT"
    /\ pc = "returned"
    /\ \E k \in 1..Len(history) :
          /\ EvictionAt(k)
          /\ \E s, t \in 1..total_frames :
                /\ s < t
                /\ TableAfter(k)[s] # history[k].memory_state[s]
                /\ NextRef(page_sequence, k, history[k].memory_state[t])
                      = Len(page_sequence) + 1

(* C29: empty slots form a suffix.  In every reachable frame table all      *)
(* occupied slots precede all empty slots, and during a run a slot that is  *)
(* occupied is never empty afterwards, so the number of occupied slots does *)
(* not decrease.                                                            *)
C29_EmptySlotsFormSuffix ==
    /\ [](\A j, k \in 1..Len(memory_state) :
             (j < k /\ memory_state[j] = EMPTY) => memory_state[k] = EMPTY)
    /\ [][ pc = "loop" =>
              /\ Len(memory_state') = Len(memory_state)
              /\ \A k \in 1..Len(memory_state) :
                    memory_state[k] # EMPTY => memory_state'[k] # EMPTY
         ]_vars

\* a table with occupied slots followed by an empty slot, after a hit
C29_Witness ==
    /\ pc = "loop"
    /\ total_frames >= 3
    /\ memory_state[2] # EMPTY
    /\ memory_state[3] = EMPTY
    /\ \E k \in 1..Len(history) : ~history[k].page_fault

(* C30: the LRU tracker matches residency.  After every step of an LRU run  *)
(* the keys of access_history are exactly the non-empty pages of the frame  *)
(* table, each once, so there are at most total_frames of them, and when no *)
(* slot is empty the oldest key is a resident page.                         *)
C30_TrackerMatchesResidency ==
    (alg = "LRU" /\ pc \in {"loop", "returned"}) =>
        /\ Keys(access_history) = Residents(RunTable)
        /\ Len(access_history) = Cardinality(Residents(RunTable))
        /\ Len(access_history) <= total_frames
        /\ ~Contains(RunTable, EMPTY) =>
              /\ access_history # <<>>
              /\ Contains(RunTable, Head(access_history))

\* an LRU run that has evicted once stands before another eviction
C30_Witness ==
    /\ alg = "LRU"
    /\ NextIsFault
    /\ ~Contains(memory_state, EMPTY)
    /\ \E k \in 1..Len(history) : EvictionAt(k)

(* C25: termination.  A simulate call never raises, processes the           *)
(* references one by one in order, and every call that has started returns, *)
(* with one record per reference.                                           *)
C25_SimulateTerminates ==
    /\ [](pc # "raised")
    /\ [](pc = "loop" => (i <= Len(page_sequence) /\ Len(history) = i))
    /\ [](pc = "returned" =>
             (i = Len(page_sequence) /\ Len(ret.history) = Len(page_sequence)))
    /\ (pc = "loop") ~> (pc = "returned")

\* a returned run of full length in which the victim lookup ran twice
C25_Witness ==
    /\ pc = "returned"
    /\ Len(page_sequence) >= MaxLen
    /\ \E j, k \in 1..Len(history) :
          j < k /\ EvictionAt(j) /\ EvictionAt(k)

----------------------------------------------------------------------------
\* the result of MemoryManager of app.py on the arguments of the call
AppResult ==
    IF alg = "LRU" THEN app_lru_replace(total_frames, page_sequence)
                   ELSE app_optimal_replace(total_frames, page_sequence)

(* C24: the duplicate cores agree.  For every frame count >= 1 and every    *)
(* sequence of non-negative pages, original_vm.py, app.py and web_app.py    *)
(* return without raising and with the fault count that simulate of the     *)
(* same policy returns.                                                     *)
C24_DuplicateCoresAgree ==
    pc = "returned" =>
        /\ ~OrigResult.raised
        /\ ~WebResult.raised
        /\ ~AppResult.raised
        /\ OrigResult.page_faults = ret.page_faults
        /\ WebResult.page_faults = ret.page_faults
        /\ AppResult.page_faults = ret.page_faults

\* an Optimal run with an eviction after which app.py holds the same pages
\* as the frame table in another order
C24_Witness ==
    /\ alg = "OPT"
    /\ pc = "returned"
    /\ \E k \in 1..Len(history) : EvictionAt(k)
    /\ Len(AppResult.memory) = total_frames
    /\ AppResult.memory # ret.memory_state
    /\ Keys(AppResult.memory) = Residents(ret.memory_state)

----------------------------------------------------------------------------
\* the text has a comma-separated token that int() rejects
Malformed(text) ==
    \E k \in 1..Len(Split(text, ",")) :
       LET token == Strip(Split(text, ",")[k])
       IN  \/ token = <<>>
           \/ \E j \in 1..Len(token) :
                 /\ ~Contains(DigitChars, token[j])
                 /\ ~(j = 1 /\ token[j] \in {"+", "-"} /\ Len(token) >= 2)

(* C26 as stated: in main.py and in web_app.py a script run that gets an    *)
(* empty reference sequence reaches the fault-rate division and fails with  *)
(* a division by zero.                                                      *)
C26_EmptySequenceDividesByZero ==
    ( /\ ui.phase = "done"
      /\ ui.pressed
      /\ ui.sequence = <<>> )
    => ui.outcome = "ZeroDivisionError"

(* C26, amended: in web_app.py a script run that passes `simulate or        *)
(* has_run` with an empty sequence fails with a division by zero; in        *)
(* main.py the division is guarded by `if sequence:`: an empty sequence     *)
(* neither calls simulate nor divides, and nothing is displayed.            *)
C26_OnlyWebAppDividesByZero ==
    ui.phase = "done" =>
        /\ (caller = "web" /\ ui.has_run /\ ui.sequence = <<>>)
              => ui.outcome = "ZeroDivisionError"
        /\ (caller = "web" /\ ui.outcome = "ZeroDivisionError")
              => ui.sequence = <<>>
        /\ (caller = "main" /\ ui.sequence = <<>>)
              => (~ui.simulated /\ ui.outcome = "none")
        /\ caller = "main" => ui.outcome # "ZeroDivisionError"

\* web_app.py divided by zero on a run in which the button was not pressed,
\* after an earlier run had set has_run
C26_Witness ==
    /\ caller = "web"
    /\ ui.phase = "done"
    /\ ~ui.pressed
    /\ ui.sequence = <<>>
    /\ ui.history # <<>>
    /\ ui.outcome = "ZeroDivisionError"

(* C27: malformed input text never reaches the core.  In main.py, when the  *)
(* button is pressed and some comma-separated token of the text is not an   *)
(* integer, parse_page_sequence returns the empty list and reports the      *)
(* error, simulate is not called and no result is displayed.                *)
C27_MalformedTextNeverSimulated ==
    ( /\ caller = "main"
      /\ ui.phase = "done"
      /\ ui.pressed
      /\ Malformed(Strip(ui.text)) )
    => /\ ui.sequence = <<>>
       /\ ui.error
       /\ ~ui.simulated
       /\ ui.outcome = "none"
       /\ ui.history = <<>>

\* a text with an integer token and a token that is not one was submitted
C27_Witness ==
    /\ caller = "main"
    /\ ui.phase = "done"
    /\ ui.pressed
    /\ ui.text = <<"1", ",", "x">>
    /\ ui.outcome = "none"

(* C28: no automatic refresh during a simulation.  An invocation of         *)
(* update_process_list that is not forced and runs between the start and    *)
(* the return of run_simulation does not refresh process_list or the        *)
(* dropdown selection; it only reschedules itself.                          *)
C28_NoAutomaticRefreshDuringRun ==
    tk.run # "none" =>
        ~(tk.log.in_run /\ ~tk.log.forced /\ tk.log.refreshed)

----------------------------------------------------------------------------
\* the distinct pages among the first k references
PrefixPages(seq, k) == {seq[j] : j \in 1..k}

\* the n most recently referenced distinct pages of the first k references
\* (all of them when there are fewer than n)
MostRecentPages(seq, k, n) ==
    {p \in PrefixPages(seq, k) :
        Cardinality({q \in PrefixPages(seq, k) :
                        LastRef(seq, k, q) > LastRef(seq, k, p)}) < n}

\* the result of the current call's policy on n frames
SimulateWith(n) ==
    IF alg = "LRU" THEN LRU_simulate(n, page_sequence)
                   ELSE OPT_simulate(n, page_sequence)

(* C31: the referenced page is resident afterwards.  For both policies the  *)
(* frame table after step k holds the page of step k in exactly one slot,   *)
(* and the final memory state returned for a non-empty sequence holds its   *)
(* last page.                                                               *)
C31_ReferencedPageResidentAfterStep ==
    /\ pc \in {"loop", "returned"} =>
          \A k \in 1..Len(history) :
             Count(TableAfter(k), history[k].page_accessed) = 1
    /\ (pc = "returned" /\ page_sequence # <<>>) =>
          Count(ret.memory_state, page_sequence[Len(page_sequence)]) = 1

\* a returned run whose last reference was a fault that evicted a page
C31_Witness ==
    /\ pc = "returned"
    /\ page_sequence # <<>>
    /\ EvictionAt(Len(history))
    /\ Contains(ret.memory_state, page_sequence[Len(page_sequence)])

(* C32: LRU resident set.  After any prefix of the sequence has been        *)
(* processed by LRU with N frames, the resident pages are exactly the       *)
(* min(N, d) most recently referenced distinct pages of the prefix, d being *)
(* the number of distinct pages in it.                                      *)
C32_LRUResidentsAreMostRecent ==
    (alg = "LRU" /\ pc \in {"loop", "returned"}) =>
        /\ Residents(RunTable)
              = MostRecentPages(page_sequence, i, total_frames)
        /\ Cardinality(Residents(RunTable))
              = IF Cardinality(PrefixPages(page_sequence, i)) < total_frames
                THEN Cardinality(PrefixPages(page_sequence, i))
                ELSE total_frames

\* an LRU prefix with more distinct pages than frames in which the page
\* loaded first is still resident because a hit refreshed it
C32_Witness ==
    /\ alg = "LRU"
    /\ pc = "loop"
    /\ total_frames >= 2
    /\ i >= 1
    /\ Cardinality(PrefixPages(page_sequence, i)) > total_frames
    /\ Contains(memory_state, page_sequence[1])
    /\ \E k \in 1..Len(history) :
          EvictionAt(k) /\ LastRef(page_sequence, i, page_sequence[1]) < k

(* C33: no Belady anomaly.  For each policy and every sequence the fault    *)
(* count with one frame more is not larger than the fault count with the    *)
(* frames of the call.                                                      *)
C33_MoreFramesNeverMoreFaults ==
    pc = "returned" =>
        /\ ~SimulateWith(total_frames + 1).raised
        /\ SimulateWith(total_frames + 1).page_faults <= ret.page_faults

\* a run with evictions for which one frame more saves a fault
C33_Witness ==
    /\ pc = "returned"
    /\ \E k \in 1..Len(history) : EvictionAt(k)
    /\ SimulateWith(total_frames + 1).page_faults < ret.page_faults

(* C34: the returned final state survives reuse.  The final memory state    *)
(* simulate returns is the frame table of the instance at that moment, and  *)
(* a later simulate call on the same instance does not change the list the  *)
(* caller received: neither its prologue nor any of its steps nor its       *)
(* return, and neither does a reset() of the instance between two calls.    *)
C34_ReturnedFinalStateSurvivesReuse ==
    [][ /\ (pc = "loop" /\ pc' = "returned") =>
              /\ memory_state' = memory_state
              /\ ret'.memory_state = memory_state
        /\ (pc = "returned" /\ pc' = "returned") =>
              /\ ret'.memory_state = ret.memory_state
              /\ held_final' = held_final
        /\ (pc = "returned" /\ caller = "holding" /\ pc' = "loop") =>
              held_final' = ret.memory_state
        /\ pc = "loop" => held_final' = held_final
      ]_vars

\* a second call has returned another final state, reached through an
\* eviction, while the caller still holds the pages the first call returned
C34_Witness ==
    /\ caller = "holding"
    /\ pc = "returned"
    /\ Residents(held_final) # {}
    /\ ret.memory_state # held_final
    /\ \E k \in 1..Len(history) : EvictionAt(k)

\* the number of run_simulation calls that have not returned
RunDepth(t) == IF t.run = "idle" THEN 0 ELSE Len(t.outer) + 1

(* C35: the simulation flag is always released.  Whenever run_simulation    *)
(* returns (after a simulation, with no sequence, or through its except     *)
(* clause) simulation_running is False, so while no run is in progress the  *)
(* flag is set only by a process selection whose enable_refresh timer is    *)
(* still pending: a simulation never disables automatic refresh for good.   *)
C35_RunAlwaysReleasesFlag ==
    /\ []((tk.run = "idle" /\ tk.simulation_running) => tk.enable > 0)
    /\ [][ RunDepth(tk') < RunDepth(tk) => ~tk'.simulation_running ]_vars

\* run_simulation has returned with the flag cleared although a process was
\* selected while it ran (its enable_refresh timer is still pending and the
\* last pass of update_process_list fell into the run)
C35_Witness ==
    /\ tk.run = "idle"
    /\ ~tk.simulation_running
    /\ tk.enable > 0
    /\ tk.log.in_run
    /\ tk.sequence_filled

====
